---- MODULE Spec2Model ----
(***************************************************************************)
(* Model of the YTsaurus <-> Excel bridge: the uploader's Upload engine    *)
(* (uploader/internal/uploader/uploader.go) and the exporter's Export      *)
(* engine (exporter/internal/exporter/{exporter,converter}.go).            *)
(*                                                                         *)
(* One behaviour is one request handled by one task: either an upload or   *)
(* an export.  The table store is modelled by its contract: a transaction  *)
(* holds a private view of the destination node that becomes visible only  *)
(* when the transaction's Commit succeeds; a transaction is bound to the   *)
(* context it was begun with and is aborted by the store when that context *)
(* is cancelled; a call made with a cancelled context fails.               *)
(***************************************************************************)
EXTENDS Integers, Sequences, FiniteSets, TLC

VARIABLES
    task,       \* "upload" or "export": the operation this behaviour runs
    pc,         \* position of the task
    input,      \* the arguments given to MakeUploadRequest
    data,       \* req.Data: the workbook, a sequence of sheets
    req,        \* the UploadRequest
    table0,     \* the destination node before the call
    table,      \* the destination node as visible outside any transaction
    txTable,    \* the destination node as seen inside the transaction
    txState,    \* "none", "active", "committed", "aborted"
    txBound,    \* TRUE when the transaction is bound to the request context
    writer,     \* the table writer: [state, append, buf]
    s,          \* the schema read by ReadSchema
    i,          \* the 1-based row index of upload's loop
    written,    \* row indexes of the records handed to out.Write, in order
    result,     \* what Upload returned
    calls,      \* the store calls made so far, with their outcome
    cancelled,  \* the request context is cancelled
    faulty,     \* TRUE when the store may fail calls of this behaviour
    cancelAt,   \* pc at which the context was cancelled ("" when not)
    exReq,      \* the ExportRequest
    src,        \* the table an export reads
    reader,     \* the table reader of an export: [state, rows, pos, err]
    out,        \* the workbook Convert is filling
    totalRowWeight, \* Convert's running weight
    response,   \* what Export returned: [kind, file]
    exInput,    \* what the export handler is given: path, mode, size limit
    status,     \* the HTTP status the handler has written (0: none yet)
    form,       \* the body of the upload request, as the handler will find it
    conv,       \* a value on its way through both converters: [type, v, stage, cell, text, back]
    floats      \* strconv.ParseFloat on the float texts a cell can hold: text -> float64

uploadVars == <<input, data, req, table0, table, txTable, txState, txBound,
                writer, s, i, written, result, calls>>
exportVars == <<exReq, src, reader, out, totalRowWeight, response>>
handlerVars == <<exInput, status, form>>
convVars == <<conv, floats>>
vars == <<task, pc, uploadVars, cancelled, faulty, cancelAt, exportVars, handlerVars,
          convVars>>

----------------------------------------------------------------------------
(* Program constants *)

ExcelMaxRowCount == 1048576
ExcelMaxColCount == 16384

(* Bounds of the model *)

MaxRows == 3          \* rows of a sheet
MaxStartRow == 3      \* largest start_row a caller gives

----------------------------------------------------------------------------
(* excelize column names.  Only the first letters are needed. *)

LetterSeq == <<"A", "B", "C", "D", "E", "F">>

ColumnNumberToName(n) == LetterSeq[n]

ColumnNameToNumber(name) ==
    IF \E n \in 1..Len(LetterSeq) : LetterSeq[n] = name
    THEN CHOOSE n \in 1..Len(LetterSeq) : LetterSeq[n] = name
    ELSE 0

(* uint64 and float64 arithmetic of the date conversions.  A natural number *)
(* is the sequence of its bits, least significant first; a float64 is      *)
(* [m, e] with value m * 2^e, m of at most 53 bits and odd (or empty for 0).*)
(* Sums and quotients are computed ten bits at a time.                     *)

Bit(b, k) == IF k <= Len(b) THEN b[k] ELSE 0

TrimHigh(b) ==
    IF \E k \in 1..Len(b) : b[k] = 1
    THEN SubSeq(b, 1, CHOOSE k \in 1..Len(b) : b[k] = 1 /\ \A l \in (k + 1)..Len(b) : b[l] = 0)
    ELSE <<>>

Zeros(n) == [k \in 1..n |-> 0]

Limbs(b) ==
    [k \in 1..((Len(b) + 9) \div 10) |->
        LET f(j) == Bit(b, 10 * (k - 1) + j)
        IN  f(1) + 2 * f(2) + 4 * f(3) + 8 * f(4) + 16 * f(5) + 32 * f(6) + 64 * f(7)
            + 128 * f(8) + 256 * f(9) + 512 * f(10)]

Unlimbs(l) == [k \in 1..(10 * Len(l)) |-> (l[((k - 1) \div 10) + 1] \div (2^((k - 1) % 10))) % 2]

RECURSIVE NatLimbs(_)
NatLimbs(n) == IF n = 0 THEN <<>> ELSE <<n % 1024>> \o NatLimbs(n \div 1024)

RECURSIVE LimbsNat(_)
LimbsNat(l) == IF l = <<>> THEN 0 ELSE l[1] + 1024 * LimbsNat(Tail(l))

RECURSIVE LimbMulAdd(_, _, _)
LimbMulAdd(l, c, carry) ==
    IF l = <<>> THEN NatLimbs(carry)
    ELSE LET t == l[1] * c + carry IN <<t % 1024>> \o LimbMulAdd(Tail(l), c, t \div 1024)

RECURSIVE LimbDiv(_, _)
LimbDiv(l, d) ==
    IF l = <<>> THEN [q |-> <<>>, r |-> 0]
    ELSE LET hi == LimbDiv(Tail(l), d)
             t == 1024 * hi.r + l[1]
         IN  [q |-> <<t \div d>> \o hi.q, r |-> t % d]

RECURSIVE LimbSub(_, _, _, _)
LimbSub(a, b, borrow, n) ==
    IF n = 0 THEN <<>>
    ELSE LET x == IF a = <<>> THEN 0 ELSE a[1]
             y == IF b = <<>> THEN 0 ELSE b[1]
             t == x - y - borrow
         IN  <<(t + 1024) % 1024>> \o LimbSub(IF a = <<>> THEN a ELSE Tail(a),
                                              IF b = <<>> THEN b ELSE Tail(b),
                                              IF t < 0 THEN 1 ELSE 0, n - 1)

NatBits(n) == TrimHigh(Unlimbs(NatLimbs(n)))

BitsNat(b) == LimbsNat(Limbs(b))

(* b * c + carry, for a natural b and a c and a carry of at most a million *)
MulAdd(b, c, carry) == TrimHigh(Unlimbs(LimbMulAdd(Limbs(b), c, carry)))

(* Quotient (not trimmed) and remainder of a natural b by d, at most a million *)
DivSmall(b, d) ==
    LET qr == LimbDiv(Limbs(b), d) IN [q |-> Unlimbs(qr.q), r |-> qr.r]

(* a - b in uint64: the difference wraps around *)
Uint64Sub(a, b) == TrimHigh(SubSeq(Unlimbs(LimbSub(Limbs(a), Limbs(b), 0, 7)), 1, 64))

Float(m, e) == [m |-> m, e |-> e]

Normal(x) ==
    IF x.m = <<>> THEN Float(<<>>, 0)
    ELSE LET low == CHOOSE k \in 1..Len(x.m) : x.m[k] = 1 /\ \A l \in 1..(k - 1) : x.m[l] = 0
         IN  Float(SubSeq(x.m, low, Len(x.m)), x.e + low - 1)

(* The float64 nearest to b * 2^e (plus a fraction below the last bit of b *)
(* when sticky), ties to even                                              *)
Round53(b, sticky, e) ==
    IF Len(b) <= 53 THEN Normal(Float(b, e))
    ELSE LET drop == Len(b) - 53
             kept == SubSeq(b, drop + 1, Len(b))
             rest == sticky \/ \E j \in 1..(drop - 1) : b[j] = 1
             up == b[drop] = 1 /\ (rest \/ kept[1] = 1)
         IN  Normal(Float(IF up THEN MulAdd(kept, 1, 1) ELSE kept, e + drop))

(* float64(n) of a uint64 *)
Float64FromUint(b) == Round53(TrimHigh(b), FALSE, 0)

(* x / d and x * c in float64, for a constant that is a whole number *)
Float64Div(x, d) ==
    LET pad == 120 - Len(x.m)
        qr == DivSmall(Zeros(pad) \o x.m, d)
    IN  Round53(TrimHigh(qr.q), qr.r # 0, x.e - pad)

Float64Mul(x, c) == Round53(MulAdd(x.m, c, 0), FALSE, x.e)

(* uint64(x) of a float64 that is not negative: the fraction is dropped *)
Uint64FromFloat(x) ==
    IF x.e >= 0 THEN Zeros(x.e) \o x.m
    ELSE IF -x.e >= Len(x.m) THEN <<>>
    ELSE SubSeq(x.m, 1 - x.e, Len(x.m))

Digits32 == <<"0", "1", "2", "3", "4", "5", "6", "7", "8", "9", "a", "b", "c", "d", "e", "f",
              "g", "h", "i", "j", "k", "l", "m", "n", "o", "p", "q", "r", "s", "t", "u", "v">>

(* The text of a natural number in base 1024, two characters per digit    *)
RECURSIVE LimbText(_)
LimbText(l) ==
    IF l = <<>> THEN ""
    ELSE LimbText(Tail(l)) \o Digits32[(l[1] \div 32) + 1] \o Digits32[(l[1] % 32) + 1]

BitText(b) == LimbText(Limbs(b))

(* The text of a float64.  strconv.FormatFloat(x, 'f', -1, 64) writes the  *)
(* shortest decimal text that strconv.ParseFloat reads back as x; the      *)
(* model writes the same float64 as mantissa and binary exponent.          *)
FormatFloat(x) ==
    "0x" \o BitText(x.m) \o (IF x.e < 0 THEN "p-" ELSE "p+")
         \o BitText(NatBits(IF x.e < 0 THEN -x.e ELSE x.e))

(* Days from excelEpoch, 1899-12-31, to unixEpoch.Add(day), 1970-01-02 *)
EpochDays == 25569

EpochSeconds == MulAdd(NatBits(EpochDays), 86400, 0)

EpochMicroseconds == MulAdd(EpochSeconds, 1000000, 0)

(* converter.go:106 the Excel serial of a datetime of v seconds *)
DatetimeSerial(v) == Float64Div(Float64FromUint(MulAdd(EpochSeconds, 1, v)), 86400)

(* converter.go:117 the Excel serial of a timestamp of v microseconds *)
TimestampSerial(v) ==
    Float64Div(Float64Div(Float64FromUint(MulAdd(EpochMicroseconds, 1, v)), 86400), 1000000)

(* The dates and times of the model: days, seconds and microseconds since  *)
(* 1970-01-01; LateSecond is 1989-09-17 00:00:07                           *)
MaxTicks == 3

LateSecond == 621993607

DateValues == 0..MaxTicks

DatetimeValues == (0..MaxTicks) \cup {LateSecond}

MilliTimestamps == {1000 * k : k \in 0..MaxTicks}

(* The float64 values whose text the model can read *)
Float64s ==
    {DatetimeSerial(v) : v \in DatetimeValues} \cup {TimestampSerial(v) : v \in MilliTimestamps}

(* schema.Type values that the store accepts in a schema *)
SchemaTypes == {"int64", "int32", "int16", "int8", "uint64", "uint32", "uint16", "uint8",
                "float", "double", "boolean", "string", "utf8", "any",
                "date", "datetime", "timestamp", "interval"}

Column(name, type, required) == [Name |-> name, Type |-> type, Required |-> required]

(* Typed values of a destination record *)
Val(k, n, t) == [k |-> k, n |-> n, t |-> t]

(* Numerals of the model that need more than a machine word of the checker *)
BigInt == "1234567890123456"
RoundBigInt == "10000000000000000"
BigFloat == "0.1234567890123456"
MidPointFloat == "12345.6789012345"
SmallFloat == "1.5"

BigNumerals == {BigInt, RoundBigInt}

DecimalFloats == {BigFloat, MidPointFloat, SmallFloat}

(* strconv.ParseInt / ParseUint on the cell texts of the model *)
NumText == ("0" :> 0) @@ ("1" :> 1) @@ ("2" :> 2) @@ ("-3" :> -3)
           @@ ("25569" :> 25569) @@ ("25570" :> 25570) @@ ("25571" :> 25571)
           @@ ("25572" :> 25572) @@ ("25573" :> 25573)

ParseIntOk(value) == value \in DOMAIN NumText
ParseUintOk(value) == value \in DOMAIN NumText /\ NumText[value] >= 0

(* strconv.ParseInt(value, 10, size) and ParseUint(value, 10, size) accept  *)
(* the numbers of that size                                                *)
ParseIntSized(value, size) ==
    /\ ParseIntOk(value)
    /\ size = 8 => NumText[value] \in -128..127
    /\ size = 16 => NumText[value] \in -32768..32767

ParseUintSized(value, size) ==
    /\ ParseUintOk(value)
    /\ size = 8 => NumText[value] <= 255
    /\ size = 16 => NumText[value] <= 65535

(* The texts strconv.FormatFloat writes for the float64 values of the      *)
(* model, each with the float64 that strconv.ParseFloat reads from it      *)
FloatTexts ==
    [text \in {FormatFloat(x) : x \in Float64s} |->
        CHOOSE x \in Float64s : FormatFloat(x) = text]

(* strconv.ParseFloat(value, 64): the float64 a text names *)
ParseFloatOk(value) ==
    \/ value \in DOMAIN NumText
    \/ value \in DOMAIN floats

ParseFloat(value) ==
    IF value \in DOMAIN NumText
    THEN Float64FromUint(NatBits(IF NumText[value] < 0 THEN -NumText[value]
                                 ELSE NumText[value]))
    ELSE floats[value]

ParseFloatNegative(value) == value \in DOMAIN NumText /\ NumText[value] < 0

(* strconv.ParseBool *)
TrueTexts == {"1", "t", "T", "TRUE", "true", "True"}
FalseTexts == {"0", "f", "F", "FALSE", "false", "False"}

NoVal == Val("none", 0, "")

(* A uint64 as a value of the model: a number, or its bits when it is     *)
(* wider than a machine word of the checker                                *)
Uint64Val(b) ==
    IF Len(b) <= 30 THEN Val("uint64", BitsNat(b), "")
    ELSE Val("uint64", 0, "0b" \o BitText(b))

Converts(val) == [ok |-> TRUE, optional |-> FALSE, val |-> val]

ConvertFails == [ok |-> FALSE, optional |-> FALSE, val |-> NoVal]

(* uploader.go:596-604 convertDate *)
convertDate(value) ==
    IF ParseUintOk(value)
    THEN Converts(Uint64Val(Uint64Sub(NatBits(NumText[value]), NatBits(EpochDays))))
    ELSE ConvertFails

(* uploader.go:613-625 convertDatetime *)
convertDatetime(value) ==
    IF ParseFloatOk(value) /\ ~ParseFloatNegative(value)
    THEN Converts(Uint64Val(Uint64Sub(
            Uint64FromFloat(Float64Mul(ParseFloat(value), 86400)), EpochSeconds)))
    ELSE ConvertFails

(* uploader.go:634-646 convertTimestamp *)
convertTimestamp(value) ==
    IF ParseFloatOk(value) /\ ~ParseFloatNegative(value)
    THEN Converts(Uint64Val(Uint64Sub(
            Uint64FromFloat(Float64Mul(Float64Mul(ParseFloat(value), 86400), 1000000)),
            EpochMicroseconds)))
    ELSE ConvertFails

IntSize(type) ==
    CASE type \in {"int8", "uint8"} -> 8
      [] type \in {"int16", "uint16"} -> 16
      [] type \in {"int32", "uint32"} -> 32
      [] OTHER -> 64

(* convert: [ok, optional, val].  optional is the errOptionalField signal. *)
convert(value, c) ==
    IF value = "" /\ ~c.Required
    THEN [ok |-> FALSE, optional |-> TRUE, val |-> NoVal]
    ELSE CASE c.Type \in {"int64", "int32", "int16", "int8", "interval"} ->
                IF ParseIntSized(value, IntSize(c.Type))
                THEN Converts(Val("int64", NumText[value], ""))
                ELSE IF value \in BigNumerals /\ IntSize(c.Type) = 64
                THEN Converts(Val("int64", 0, value))
                ELSE ConvertFails
           [] c.Type \in {"uint64", "uint32", "uint16", "uint8"} ->
                IF ParseUintSized(value, IntSize(c.Type))
                THEN Converts(Val("uint64", NumText[value], ""))
                ELSE IF value \in BigNumerals /\ IntSize(c.Type) = 64
                THEN Converts(Val("uint64", 0, value))
                ELSE ConvertFails
           [] c.Type \in {"float", "double"} ->
                IF ParseFloatOk(value) \/ value \in DecimalFloats
                THEN Converts(Val("double", 0, value))
                ELSE ConvertFails
           [] c.Type = "boolean" ->
                IF value \in TrueTexts THEN Converts(Val("boolean", 1, ""))
                ELSE IF value \in FalseTexts THEN Converts(Val("boolean", 0, ""))
                ELSE ConvertFails
           [] c.Type = "string" -> Converts(Val("bytes", 0, value))
           [] c.Type = "utf8" -> Converts(Val("utf8", 0, value))
           [] c.Type = "any" ->
                \* yson.Unmarshal reads a number; anything else is kept as raw bytes
                IF ParseIntOk(value) THEN Converts(Val("int64", NumText[value], ""))
                ELSE Converts(Val("bytes", 0, value))
           [] c.Type = "date" -> convertDate(value)
           [] c.Type = "datetime" -> convertDatetime(value)
           [] c.Type = "timestamp" -> convertTimestamp(value)
           [] OTHER -> ConvertFails

----------------------------------------------------------------------------
(* The workbook: a sequence of sheets [name, visible, rows]; a row is the  *)
(* sequence of its cell texts as excelize's Rows/Columns returns them.     *)

SheetExists(d, name) == \E k \in 1..Len(d) : d[k].name = name

SheetRows(d, name) == d[CHOOSE k \in 1..Len(d) : d[k].name = name].rows

(* EnsureSheetName: the first visible sheet when no sheet is given *)
EnsureSheetName(r, d) ==
    IF r.Sheet # "" THEN r
    ELSE IF \E k \in 1..Len(d) : d[k].visible
    THEN [r EXCEPT !.Sheet =
            d[CHOOSE k \in 1..Len(d) :
                d[k].visible /\ \A l \in 1..(k-1) : ~d[l].visible].name]
    ELSE r

(* readFirstRow: [err, row]; err is "" on success.  A missing sheet gives  *)
(* the error of Data.Rows unwrapped, a missing row a BadRequest.           *)
readFirstRow(r, d) ==
    IF ~SheetExists(d, r.Sheet) THEN [err |-> "Internal", row |-> <<>>]
    ELSE IF Len(SheetRows(d, r.Sheet)) >= 1
    THEN [err |-> "", row |-> SheetRows(d, r.Sheet)[1]]
    ELSE [err |-> "BadRequest", row |-> <<>>]

readSecondRow(r, d) ==
    IF ~SheetExists(d, r.Sheet) THEN [err |-> "Internal", row |-> <<>>]
    ELSE IF Len(SheetRows(d, r.Sheet)) >= 2
    THEN [err |-> "", row |-> SheetRows(d, r.Sheet)[2]]
    ELSE [err |-> "BadRequest", row |-> <<>>]

----------------------------------------------------------------------------
(* MakeUploadRequest: [ok, req] *)

EmptyMapping == [n \in {} |-> "A"]

(* Mutant: the type row is not skipped *)
FirstDataRowHeaderOnly(header, types) == 1 + (IF header THEN 1 ELSE 0)

(* uploader.go:112-118 the first row after the header and type rows *)
FirstDataRow(header, types) == 1 + (IF header THEN 1 ELSE 0) + (IF types THEN 1 ELSE 0)

MakeUploadRequest(startRow, rowCount, sheet, header, types, columns, append, create) ==
    LET allRows0 == startRow = 0 /\ rowCount = 0
        start1 == IF ~allRows0 /\ startRow = 0 THEN 1 ELSE startRow
        count1 == IF ~allRows0 /\ rowCount = 0 THEN ExcelMaxRowCount ELSE rowCount
        meta == FirstDataRow(header, types)
        shift == allRows0 /\ meta >= 2
        r == [Sheet |-> sheet, Header |-> header, Types |-> types,
              Columns |-> columns,
              allRows |-> allRows0 /\ ~shift,
              StartRow |-> IF shift THEN meta ELSE start1,
              RowCount |-> IF shift THEN ExcelMaxRowCount ELSE count1,
              append |-> append, create |-> create]
    IN  IF r.StartRow < 0 THEN [ok |-> FALSE, req |-> r]
        ELSE IF r.RowCount > ExcelMaxRowCount THEN [ok |-> FALSE, req |-> r]
        ELSE IF \E y \in DOMAIN columns : ColumnNameToNumber(columns[y]) = 0
        THEN [ok |-> FALSE, req |-> r]
        ELSE [ok |-> TRUE, req |-> r]

----------------------------------------------------------------------------
(* MakeSchema (create mode).  The result is a set: sort.Slice is not       *)
(* stable and the mapping is iterated in map order, so yt columns mapped   *)
(* to the same spreadsheet column may come out in either order.            *)

Perms(S) == {p \in [1..Cardinality(S) -> S] : \A a, b \in 1..Cardinality(S) : a # b => p[a] # p[b]}

MaxOf(S) == CHOOSE x \in S : \A y \in S : y <= x

(* strings.TrimSpace on the cell texts of the model *)
TrimSpace(text) == IF text = " int64 " THEN "int64" ELSE text

(* GetColumnType: schema.Type.UnmarshalText accepts every token *)
GetColumnType(typeStr) == TrimSpace(typeStr)

(* Positions of the non-empty cells of a row, ascending *)
RECURSIVE NonEmptyPositions(_, _)
NonEmptyPositions(row, k) ==
    IF k > Len(row) THEN <<>>
    ELSE IF row[k] = "" THEN NonEmptyPositions(row, k + 1)
    ELSE <<k>> \o NonEmptyPositions(row, k + 1)

(* The yt column names MakeSchema emits, with the spreadsheet column each came from *)
SchemaNamesFromMapping(columns) ==
    {[k \in 1..Len(p) |-> [name |-> p[k], excel |-> columns[p[k]]]] :
        p \in {q \in Perms(DOMAIN columns) :
                \A a, b \in 1..Len(q) :
                    a < b => ColumnNameToNumber(columns[q[a]]) <= ColumnNameToNumber(columns[q[b]])}}

(* Mutant: an empty cell of the first row gives a column too *)
SchemaNamesFromRowKeepsEmpty(row, header) ==
    [k \in 1..Len(row) |->
        [name |-> IF header THEN row[k] ELSE ColumnNumberToName(k),
         excel |-> ColumnNumberToName(k)]]

(* uploader.go:455-481 the columns MakeSchema takes from the first row *)
SchemaNamesFromRow(row, header) ==
    LET pos == NonEmptyPositions(row, 1)
    IN  [k \in 1..Len(pos) |->
            [name |-> IF header THEN row[pos[k]] ELSE ColumnNumberToName(pos[k]),
             excel |-> ColumnNumberToName(pos[k])]]

(* The type colByName gives the column at position k: the type cell under  *)
(* a spreadsheet column of that name, set on the last column of that name. *)
TypedSchema(named, typeRow) ==
    [k \in 1..Len(named) |->
        LET last == MaxOf({l \in 1..Len(named) : named[l].name = named[k].name})
            hits == {c \in 1..Len(typeRow) :
                        \E l \in 1..Len(named) :
                            /\ named[l].name = named[k].name
                            /\ named[l].excel = ColumnNumberToName(c)}
        IN  Column(named[k].name,
                   IF k = last /\ hits # {} THEN GetColumnType(typeRow[MaxOf(hits)]) ELSE "any",
                   FALSE)]

MakeSchema(r, d) ==
    LET first == readFirstRow(r, d)
        typeRes == IF ~r.Types THEN [err |-> "", row |-> <<>>]
                   ELSE IF r.Header THEN readSecondRow(r, d)
                   ELSE readFirstRow(r, d)
        named == IF DOMAIN r.Columns # {} THEN SchemaNamesFromMapping(r.Columns)
                 ELSE {SchemaNamesFromRow(first.row, r.Header)}
    IN  IF DOMAIN r.Columns = {} /\ first.err # ""
        THEN {[err |-> first.err, schema |-> <<>>]}
        ELSE IF typeRes.err # ""
        THEN {[err |-> typeRes.err, schema |-> <<>>]}
        ELSE {[err |-> "", schema |-> TypedSchema(n, typeRes.row)] : n \in named}

(* What the store accepts in yt.CreateTable: known types, distinct names *)
StoreAcceptsSchema(sch) ==
    /\ \A k \in 1..Len(sch) : sch[k].Type \in SchemaTypes /\ sch[k].Name # ""
    /\ \A k, l \in 1..Len(sch) : k # l => sch[k].Name # sch[l].Name

----------------------------------------------------------------------------
(* Column mapping *)

makeColumnSet(sch) == {sch[k].Name : k \in 1..Len(sch)}

(* Mutant: header cells are not looked up in the schema *)
MappingFromRowUnfiltered(row, sch) ==
    [name \in {row[k] : k \in 1..Len(row)} |->
        ColumnNumberToName(MaxOf({k \in 1..Len(row) : row[k] = name}))]

(* makeColumnMappingFromHeader: a later cell with the same text wins *)
MappingFromRow(row, sch) ==
    [name \in {row[k] : k \in 1..Len(row)} \cap makeColumnSet(sch) |->
        ColumnNumberToName(MaxOf({k \in 1..Len(row) : row[k] = name}))]

makeColumnMappingFromHeader(r, d, sch) ==
    LET first == readFirstRow(r, d)
    IN  IF first.err # "" THEN [err |-> first.err, req |-> r]
        ELSE [err |-> "", req |-> [r EXCEPT !.Columns = MappingFromRow(first.row, sch)]]

(* Mutant: the column number is taken zero-based plus two *)
DefaultMappingShifted(sch) ==
    [name \in makeColumnSet(sch) |->
        ColumnNumberToName(MaxOf({k \in 1..Len(sch) : sch[k].Name = name}) + 1)]

(* makeDefaultColumnMapping: a later column with the same name wins *)
DefaultMapping(sch) ==
    [name \in makeColumnSet(sch) |->
        ColumnNumberToName(MaxOf({k \in 1..Len(sch) : sch[k].Name = name}))]

makeDefaultColumnMapping(r, sch) ==
    [err |-> "", req |-> [r EXCEPT !.Columns = DefaultMapping(sch)]]

MakeColumnMapping(r, d, sch) ==
    IF r.Header THEN makeColumnMappingFromHeader(r, d, sch)
    ELSE makeDefaultColumnMapping(r, sch)

(* Mutant: the sizes are not compared *)
MappingLenUnchecked(r, sch) == FALSE

(* len(req.Columns) != len(s.Columns) *)
MappingLenMismatch(r, sch) == Cardinality(DOMAIN r.Columns) # Len(sch)

----------------------------------------------------------------------------
(* upload: the record of one row *)

(* columnToIndex[ytCol]: the zero-based index, 0 for a name the schema lacks *)
columnToIndex(sch, ytCol) ==
    IF \E k \in 1..Len(sch) : sch[k].Name = ytCol
    THEN MaxOf({k \in 1..Len(sch) : sch[k].Name = ytCol}) - 1
    ELSE 0

(* excelColToYTCols[excelCol]: the indexes, as a set *)
excelColToYTCols(r, sch, excelCol) ==
    {columnToIndex(sch, y) : y \in {z \in DOMAIN r.Columns : r.Columns[z] = excelCol}}

(* The schema columns whose conversion of cell j of the row fails *)
FailingAt(r, sch, row, j) ==
    {idx \in excelColToYTCols(r, sch, ColumnNumberToName(j)) :
        LET cv == convert(row[j], sch[idx + 1]) IN ~cv.ok /\ ~cv.optional}

(* The record after cells 1..j of the row, when no conversion fails *)
RECURSIVE RecordUpTo(_, _, _, _)
RecordUpTo(r, sch, row, j) ==
    IF j = 0 THEN [n \in {} |-> NoVal]
    ELSE LET prev == RecordUpTo(r, sch, row, j - 1)
             good == {idx \in excelColToYTCols(r, sch, ColumnNumberToName(j)) :
                        convert(row[j], sch[idx + 1]).ok}
             new  == [n \in {sch[idx + 1].Name : idx \in good} |->
                        convert(row[j],
                                sch[(CHOOSE idx \in good : sch[idx + 1].Name = n) + 1]).val]
         IN  new @@ prev

(* Mutant: every conversion error is treated like errOptionalField *)
FirstFailingCellIgnored(r, sch, row) == 0

(* The first cell of the row with a failing conversion, 0 when none *)
FirstFailingCell(r, sch, row) ==
    IF \E j \in 1..Len(row) : FailingAt(r, sch, row, j) # {}
    THEN CHOOSE j \in 1..Len(row) :
            /\ FailingAt(r, sch, row, j) # {}
            /\ \A l \in 1..(j - 1) : FailingAt(r, sch, row, l) = {}
    ELSE 0

----------------------------------------------------------------------------
(* The store and the result of Upload *)

NoTable == [exists |-> FALSE, schema |-> <<>>, rows |-> <<>>]

Res(kind, cause) ==
    [kind |-> kind, cause |-> cause, value |-> "", column |-> "", row |-> <<>>, type |-> ""]

NoResult == Res("", "")

NoReq == [Sheet |-> "", Header |-> FALSE, Types |-> FALSE, Columns |-> EmptyMapping,
          allRows |-> FALSE, StartRow |-> 0, RowCount |-> 0,
          append |-> FALSE, create |-> FALSE]

(* The outcomes the store may give a call made with the request context:   *)
(* the call fails once the context is cancelled.                           *)
Outcomes(failures) ==
    IF cancelled THEN {"canceled"}
    ELSE IF faulty THEN {"none"} \cup failures
    ELSE {"none"}

(* yterrors.ContainsErrorCode(err, CodeAuthorizationError) ? Unauthorized : plain *)
ClassifyAuth(f) == IF f = "auth" THEN "Unauthorized" ELSE "Internal"

Call(name, f) == <<name, f>>

(* The records the writer holds *)
Records(w) == [k \in 1..Len(w) |-> w[k].m]

----------------------------------------------------------------------------
(* Upload, statement by statement *)

(* http.ResponseWriter.WriteHeader as replyError calls it: the first status *)
(* written is the one the client gets, a later WriteHeader changes nothing *)
WriteHeader(st, code) == IF st = 0 THEN code ELSE st

(* api.go:117 the query has a columns parameter *)
ColumnsGiven(in) == DOMAIN in.columns # {}

(* api.go:116-149 the columns parameter, then MakeUploadRequest.  The       *)
(* branch for header=true with a column mapping replies 400 and goes on:   *)
(* it has no return.  A request that MakeUploadRequest rejects ends here.  *)
ParseRequest ==
    /\ task = "upload" /\ pc = "parse"
    /\ LET early == IF ColumnsGiven(input) /\ input.header
                    THEN WriteHeader(status, 400) ELSE status
           p == MakeUploadRequest(input.startRow, input.rowCount, input.sheet,
                                  input.header, input.types, input.columns,
                                  input.append, input.create)
       IN  IF p.ok
           THEN /\ req' = p.req
                /\ pc' = "form"
                /\ result' = result
                /\ status' = early
           ELSE /\ req' = req
                /\ pc' = "rejected"
                /\ result' = Res("BadRequest", "parse")
                /\ status' = WriteHeader(early, 400)
    /\ UNCHANGED <<task, input, data, table0, table, txTable, txState, txBound,
                   writer, s, i, written, calls, cancelled, faulty, cancelAt, exportVars,
                   exInput, form, conv, floats>>

(* The bodies of an upload request: a form with an excel file in the part  *)
(* uploadfile, a body that is no multipart form, a form without the part   *)
(* uploadfile, a form whose part uploadfile is no excel file               *)
Forms == {"ok", "noform", "nofile", "notexcel"}

(* api.go:152-171 the status replied for the body, 0 when none is replied: *)
(* ParseMultipartForm and excelize.OpenReader reply 400 on their error,    *)
(* the error of FormFile is printed and the handler returns                *)
FormStatus(f) ==
    CASE f = "noform" -> 400
      [] f = "nofile" -> 0
      [] f = "notexcel" -> 400
      [] OTHER -> 0

(* api.go:152-172 the handler reads the body and opens the workbook; on an *)
(* error it returns before Upload is called                                *)
ReadForm ==
    /\ task = "upload" /\ pc = "form"
    /\ status' = IF FormStatus(form) = 0 THEN status ELSE WriteHeader(status, FormStatus(form))
    /\ pc' = IF form = "ok" THEN "begin" ELSE "noupload"
    /\ UNCHANGED <<task, uploadVars, cancelled, faulty, cancelAt, exportVars, exInput, form,
                   conv, floats>>

(* The transaction given to BeginTx is bound to the request context *)
BeginTxBindsContext == TRUE

(* uploader.go:266-272 EnsureSheetName, BeginTx, defer tx.Abort() *)
BeginTx ==
    /\ task = "upload" /\ pc = "begin"
    /\ req' = EnsureSheetName(req, data)
    /\ \E f \in Outcomes({"auth", "other"}) :
        /\ calls' = Append(calls, Call("BeginTx", f))
        /\ IF f = "none"
           THEN /\ txState' = "active"
                /\ txBound' = BeginTxBindsContext
                /\ txTable' = table
                /\ pc' = IF req.create THEN "create" ELSE "schema"
                /\ result' = result
           ELSE /\ UNCHANGED <<txState, txBound, txTable>>
                /\ pc' = "done"
                /\ result' = Res("Internal", "begin")
    /\ UNCHANGED <<task, input, data, table0, table, writer, s, i, written,
                   cancelled, faulty, cancelAt, exportVars>>
    /\ UNCHANGED handlerVars
    /\ UNCHANGED convVars

(* Mutant: the table is created through the client, outside the transaction *)
CreateOutsideTx == FALSE

(* yt.CreateTable is given the transaction *)
CreateInsideTx == TRUE

(* uploader.go:274-278, 399-410 CreateTable: MakeSchema, then yt.CreateTable *)
CreateTable ==
    /\ task = "upload" /\ pc = "create"
    /\ \E ms \in MakeSchema(req, data) :
        IF ms.err # ""
        THEN /\ result' = Res(ms.err, "schema-inference")
             /\ pc' = "abort"
             /\ UNCHANGED <<table, txTable, calls>>
        ELSE \E f \in Outcomes({"auth", "other"}) :
             LET seen == IF CreateInsideTx THEN txTable ELSE table
                 g == IF f # "none" THEN f
                      ELSE IF seen.exists THEN "exists"
                      ELSE IF ~StoreAcceptsSchema(ms.schema) THEN "invalid"
                      ELSE "none"
                 made == [exists |-> TRUE, schema |-> ms.schema, rows |-> <<>>]
             IN  /\ calls' = Append(calls, Call("CreateTable", g))
                 /\ IF g = "none"
                    THEN /\ txTable' = made
                         /\ table' = IF CreateInsideTx THEN table ELSE made
                         /\ pc' = "schema"
                         /\ result' = result
                    ELSE /\ UNCHANGED <<table, txTable>>
                         /\ pc' = "abort"
                         /\ result' = Res(ClassifyAuth(g), "create")
    /\ UNCHANGED <<task, input, data, req, table0, txState, txBound, writer, s, i,
                   written, cancelled, faulty, cancelAt, exportVars>>
    /\ UNCHANGED handlerVars
    /\ UNCHANGED convVars

(* uploader.go:280-289 ReadSchema inside the transaction *)
ReadSchema ==
    /\ task = "upload" /\ pc = "schema"
    /\ \E f \in Outcomes({"auth", "other"}) :
        LET g == IF f # "none" THEN f
                 ELSE IF ~txTable.exists THEN "resolve"
                 ELSE "none"
        IN  /\ calls' = Append(calls, Call("GetNode", g))
            /\ IF g = "none"
               THEN /\ s' = txTable.schema
                    /\ pc' = "mapping"
                    /\ result' = result
               ELSE /\ s' = s
                    /\ pc' = "abort"
                    /\ result' = Res(IF g = "resolve" THEN "BadRequest" ELSE ClassifyAuth(g),
                                     "read-schema")
    /\ UNCHANGED <<task, input, data, req, table0, table, txTable, txState, txBound,
                   writer, i, written, cancelled, faulty, cancelAt, exportVars>>
    /\ UNCHANGED handlerVars
    /\ UNCHANGED convVars

(* uploader.go:291-295 resolve the mapping when the request has none *)
ResolveMapping ==
    /\ task = "upload" /\ pc = "mapping"
    /\ IF DOMAIN req.Columns = {}
       THEN LET mp == MakeColumnMapping(req, data, s)
            IN  IF mp.err # ""
                THEN /\ req' = req
                     /\ pc' = "abort"
                     /\ result' = Res(mp.err, "mapping")
                ELSE /\ req' = mp.req
                     /\ pc' = "check"
                     /\ result' = result
       ELSE /\ req' = req
            /\ pc' = "check"
            /\ result' = result
    /\ UNCHANGED <<task, input, data, table0, table, txTable, txState, txBound,
                   writer, s, i, written, calls, cancelled, faulty, cancelAt, exportVars>>
    /\ UNCHANGED handlerVars
    /\ UNCHANGED convVars

(* uploader.go:297-304 the mapping has one entry per schema column *)
CheckMapping ==
    /\ task = "upload" /\ pc = "check"
    /\ IF MappingLenMismatch(req, s)
       THEN /\ pc' = "abort"
            /\ result' = Res("BadRequest", "mapping-size")
       ELSE IF Cardinality(DOMAIN req.Columns) > ExcelMaxColCount
       THEN /\ pc' = "abort"
            /\ result' = Res("BadRequest", "too-many-columns")
       ELSE /\ pc' = "open"
            /\ result' = result
    /\ UNCHANGED <<task, input, data, req, table0, table, txTable, txState, txBound,
                   writer, s, i, written, calls, cancelled, faulty, cancelAt, exportVars>>
    /\ UNCHANGED handlerVars
    /\ UNCHANGED convVars

(* uploader.go:306-312 tx.WriteTable *)
WriteTable ==
    /\ task = "upload" /\ pc = "open"
    /\ \E f \in Outcomes({"auth", "other"}) :
        /\ calls' = Append(calls, Call("WriteTable", f))
        /\ IF f = "none"
           THEN /\ writer' = "open"
                /\ pc' = "rows"
                /\ result' = result
           ELSE /\ writer' = writer
                /\ pc' = "abort"
                /\ result' = Res(ClassifyAuth(f), "open-writer")
    /\ UNCHANGED <<task, input, data, req, table0, table, txTable, txState, txBound,
                   s, i, written, cancelled, faulty, cancelAt, exportVars>>
    /\ UNCHANGED handlerVars
    /\ UNCHANGED convVars

(* Mutant: Upload returns the error of upload without rolling the writer back *)
AfterUploadErrorNoRollback == "abort"

(* uploader.go:314-317 where Upload goes when upload returned an error *)
AfterUploadError == "rollback"

(* uploader.go:326-340 upload: the index maps, then Data.Rows *)
OpenRows ==
    /\ task = "upload" /\ pc = "rows"
    /\ IF SheetExists(data, req.Sheet)
       THEN /\ i' = 1
            /\ pc' = "loop"
            /\ result' = result
       ELSE /\ i' = i
            /\ pc' = AfterUploadError
            /\ result' = Res("BadRequest", "rows")
    /\ UNCHANGED <<task, input, data, req, table0, table, txTable, txState, txBound,
                   writer, s, written, calls, cancelled, faulty, cancelAt, exportVars>>
    /\ UNCHANGED handlerVars
    /\ UNCHANGED convVars

(* Mutant: the loop stops one row late *)
RowActionStopsLate(r, row, n) ==
    IF Len(row) = 0 THEN "skip"
    ELSE IF ~r.allRows /\ n < r.StartRow THEN "skip"
    ELSE IF ~r.allRows /\ n > r.StartRow + r.RowCount THEN "break"
    ELSE "convert"

(* uploader.go:348-358 what the loop does with row number n before converting it *)
RowAction(r, row, n) ==
    IF Len(row) = 0 THEN "skip"
    ELSE IF ~r.allRows /\ n < r.StartRow THEN "skip"
    ELSE IF ~r.allRows /\ n >= r.StartRow + r.RowCount THEN "break"
    ELSE "convert"

(* uploader.go:342-384 one iteration of upload's loop *)
UploadRow ==
    /\ task = "upload" /\ pc = "loop"
    /\ LET rows == SheetRows(data, req.Sheet)
       IN  IF i > Len(rows)
           THEN /\ pc' = "wcommit"
                /\ UNCHANGED <<i, written, result, calls>>
           ELSE LET row == rows[i]
                    act == RowAction(req, row, i)
                    j == FirstFailingCell(req, s, row)
                IN  CASE act = "skip" ->
                           /\ i' = i + 1
                           /\ UNCHANGED <<pc, written, result, calls>>
                      [] act = "break" ->
                           /\ pc' = "wcommit"
                           /\ UNCHANGED <<i, written, result, calls>>
                      [] act = "convert" /\ j # 0 ->
                           \E idx \in FailingAt(req, s, row, j) :
                               /\ result' = [kind |-> "BadRequest", cause |-> "convert",
                                             value |-> row[j],
                                             column |-> ColumnNumberToName(j),
                                             row |-> row,
                                             type |-> s[idx + 1].Type]
                               /\ pc' = AfterUploadError
                               /\ UNCHANGED <<i, written, calls>>
                      [] act = "convert" /\ j = 0 ->
                           \E f \in Outcomes({"auth", "other"}) :
                               /\ calls' = Append(calls, Call("Write", f))
                               /\ IF f = "none"
                                  THEN /\ written' = Append(written,
                                            [i |-> i, m |-> RecordUpTo(req, s, row, Len(row))])
                                       /\ i' = i + 1
                                       /\ UNCHANGED <<pc, result>>
                                  ELSE /\ result' = Res("Internal", "write")
                                       /\ pc' = AfterUploadError
                                       /\ UNCHANGED <<i, written>>
    /\ UNCHANGED <<task, input, data, req, table0, table, txTable, txState, txBound,
                   writer, s, cancelled, faulty, cancelAt, exportVars>>
    /\ UNCHANGED handlerVars
    /\ UNCHANGED convVars

(* uploader.go:386 out.Commit: the rows reach the transaction's view *)
WriterCommit ==
    /\ task = "upload" /\ pc = "wcommit"
    /\ \E f \in Outcomes({"auth", "other"}) :
        LET g == IF f = "none" /\ txState # "active" THEN "tx-aborted" ELSE f
        IN  /\ calls' = Append(calls, Call("writer.Commit", g))
            /\ IF g = "none"
               THEN /\ writer' = "committed"
                    /\ txTable' = [txTable EXCEPT !.rows =
                            IF req.append THEN txTable.rows \o Records(written)
                            ELSE Records(written)]
                    /\ pc' = "txcommit"
                    /\ result' = result
               ELSE /\ writer' = "failed"
                    /\ txTable' = txTable
                    /\ pc' = AfterUploadError
                    /\ result' = Res("Internal", "writer-commit")
    /\ UNCHANGED <<task, input, data, req, table0, table, txState, txBound,
                   s, i, written, cancelled, faulty, cancelAt, exportVars>>
    /\ UNCHANGED handlerVars
    /\ UNCHANGED convVars

(* uploader.go:314-317 out.Rollback after upload failed; its error is dropped *)
WriterRollback ==
    /\ task = "upload" /\ pc = "rollback"
    /\ \E f \in Outcomes({"other"}) :
        calls' = Append(calls, Call("writer.Rollback", f))
    /\ writer' = "rolledback"
    /\ pc' = "abort"
    /\ UNCHANGED <<task, input, data, req, table0, table, txTable, txState, txBound,
                   s, i, written, result, cancelled, faulty, cancelAt, exportVars>>
    /\ UNCHANGED handlerVars
    /\ UNCHANGED convVars

(* Mutant: the error of tx.Commit is dropped *)
TxCommitResultDropsError(g) == Res("ok", "")

(* uploader.go:319-323 what Upload returns after tx.Commit *)
TxCommitResult(g) ==
    IF g = "none" THEN Res("ok", "") ELSE Res(ClassifyAuth(g), "tx-commit")

(* uploader.go:319-323 tx.Commit *)
TxCommit ==
    /\ task = "upload" /\ pc = "txcommit"
    /\ \E f \in (IF faulty THEN {"none", "auth", "other"} ELSE {"none"}) :
        LET g == IF txState # "active" THEN "tx-aborted" ELSE f
        IN  /\ calls' = Append(calls, Call("tx.Commit", g))
            /\ IF g = "none"
               THEN /\ txState' = "committed"
                    /\ table' = txTable
               ELSE /\ UNCHANGED <<txState, table>>
            /\ result' = TxCommitResult(g)
    /\ pc' = "abort"
    /\ UNCHANGED <<task, input, data, req, table0, txTable, txBound, writer,
                   s, i, written, cancelled, faulty, cancelAt, exportVars>>
    /\ UNCHANGED handlerVars
    /\ UNCHANGED convVars

(* uploader.go:272 the deferred tx.Abort: nothing to undo once committed *)
TxAbort ==
    /\ task = "upload" /\ pc = "abort"
    /\ calls' = Append(calls, Call("tx.Abort", IF txState = "active" THEN "none" ELSE "finished"))
    /\ txState' = IF txState = "active" THEN "aborted" ELSE txState
    /\ pc' = "done"
    /\ UNCHANGED <<task, input, data, req, table0, table, txTable, txBound, writer,
                   s, i, written, result, cancelled, faulty, cancelAt, exportVars>>
    /\ UNCHANGED handlerVars
    /\ UNCHANGED convVars

(* api.go:175-186 the status for what Upload returned; a handler that     *)
(* returns without writing a status answers 200                           *)
UploadStatus(r) ==
    CASE r.kind = "ok" -> 200
      [] r.kind = "Unauthorized" -> 401
      [] r.kind = "BadRequest" -> 400
      [] OTHER -> 500

(* api.go:175-187 the handler replies after Upload returned *)
UploadReply ==
    /\ task = "upload" /\ pc = "done"
    /\ status' = WriteHeader(status, UploadStatus(result))
    /\ pc' = "end"
    /\ UNCHANGED <<task, uploadVars, cancelled, faulty, cancelAt, exportVars, exInput, form, conv, floats>>

(* The request context is cancelled (client gone, handler timeout); the    *)
(* store aborts a transaction bound to it.                                 *)
Cancel ==
    /\ faulty /\ ~cancelled
    /\ pc \notin {"parse", "form", "noupload", "rejected", "done", "end", "e-parse"}
    /\ cancelled' = TRUE
    /\ cancelAt' = pc
    /\ txState' = IF txState = "active" /\ txBound THEN "aborted" ELSE txState
    /\ UNCHANGED <<task, pc, input, data, req, table0, table, txTable, txBound,
                   writer, s, i, written, result, calls, faulty, exReq, src, out,
                   totalRowWeight, response>>
    /\ reader' = reader
    /\ UNCHANGED handlerVars
    /\ UNCHANGED convVars

----------------------------------------------------------------------------
(* Export *)

excelMaxRowCount == 1048576
excelMaxColCount == 16384
MaxRowCount == excelMaxRowCount - 2

Null == Val("null", 0, "")

Cell(style, v) == [StyleID |-> style, Value |-> v]

NilCell == Cell("nil", Null)

(* The characters of a text *)
Chars(text) ==
    CASE text = "" -> <<>>
      [] text = BigInt -> <<"1", "2", "3", "4", "5", "6", "7", "8", "9", "0",
                            "1", "2", "3", "4", "5", "6">>
      [] text = RoundBigInt -> <<"1", "0", "0", "0", "0", "0", "0", "0", "0", "0",
                                 "0", "0", "0", "0", "0", "0", "0">>
      [] text = BigFloat -> <<"0", ".", "1", "2", "3", "4", "5", "6", "7", "8", "9", "0",
                              "1", "2", "3", "4", "5", "6">>
      [] text = MidPointFloat -> <<"1", "2", "3", "4", "5", ".", "6", "7", "8", "9", "0",
                                   "1", "2", "3", "4", "5">>
      [] text = SmallFloat -> <<"1", ".", "5">>
      [] text = "-3" -> <<"-", "3">>
      [] text = "ab" -> <<"a", "b">>
      [] text = "UNSUPPORTED" -> <<"U", "N", "S", "U", "P", "P", "O", "R", "T", "E", "D">>
      [] OTHER -> <<text>>

(* fmt.Sprintf("%v", v) of a numeric value: its decimal text *)
Sprintf(v) ==
    IF v.t # "" THEN v.t ELSE CHOOSE text \in DOMAIN NumText : NumText[text] = v.n

(* strings.TrimPrefix, strings.TrimLeftFunc, strings.TrimRightFunc *)
TrimPrefix(q, c) == IF Len(q) > 0 /\ q[1] = c THEN Tail(q) ELSE q

RECURSIVE TrimLeft(_, _)
TrimLeft(q, c) == IF Len(q) > 0 /\ q[1] = c THEN TrimLeft(Tail(q), c) ELSE q

RECURSIVE TrimRight(_, _)
TrimRight(q, c) ==
    IF Len(q) > 0 /\ q[Len(q)] = c THEN TrimRight(SubSeq(q, 1, Len(q) - 1), c) ELSE q

(* Mutant: the trailing zeros are counted *)
fitsInNumberKeepsZeros(v) ==
    Len(TrimPrefix(TrimLeft(TrimPrefix(Chars(Sprintf(v)), "-"), "0"), ".")) <= 15

(* converter.go:342-353 fitsInNumber *)
fitsInNumber(v) ==
    Len(TrimRight(TrimPrefix(TrimLeft(TrimPrefix(Chars(Sprintf(v)), "-"), "0"), "."), "0")) <= 15

NumberPrecisionModes == {"error", "string", "lose"}

(* What converter.convert returns: a cell, or an error about a value *)
Converted(cell) == [err |-> "", cell |-> cell]

ConvertError(err) == [err |-> err, cell |-> NilCell]

(* Mutant: mode lose is treated as mode string *)
convertLargeIntegersLoseAsString(mode, v) ==
    IF fitsInNumber(v) THEN Converted(Cell("Number", v))
    ELSE CASE mode = "error" -> ConvertError("precision")
           [] mode \in {"string", "lose"} -> Converted(Cell("", Val("utf8", 0, Sprintf(v))))
           [] OTHER -> ConvertError("mode")

(* converter.go:52-66 convertLargeIntegers *)
convertLargeIntegers(mode, v) ==
    IF fitsInNumber(v) THEN Converted(Cell("Number", v))
    ELSE CASE mode = "error" -> ConvertError("precision")
           [] mode = "string" -> Converted(Cell("", Val("utf8", 0, Sprintf(v))))
           [] mode = "lose" -> Converted(Cell("Number", v))
           [] OTHER -> ConvertError("mode")

(* converter.go:68-82 convertFloat *)
convertFloat(mode, v) ==
    IF fitsInNumber(v) THEN Converted(Cell("", v))
    ELSE CASE mode = "error" -> ConvertError("precision")
           [] mode = "string" -> Converted(Cell("", Val("utf8", 0, Sprintf(v))))
           [] mode = "lose" -> Converted(Cell("", v))
           [] OTHER -> ConvertError("mode")

(* converter.go:101-104 convertDate *)
converterConvertDate(v) == Cell("Date", Val("uint64", v.n + EpochDays, ""))

(* converter.go:106-109 convertDatetime *)
converterConvertDatetime(v) ==
    Cell("Datetime", Val("double", 0, FormatFloat(DatetimeSerial(v.n))))

(* time.Format(strTimestampFormat) of the one timestamp of the model that   *)
(* is not a whole number of milliseconds                                   *)
OddTimestamp == 1500

OddTimestampText == "1970-01-01T00:00:00.0015Z"

(* converter.go:116-125 convertTimestamp *)
converterConvertTimestamp(v) ==
    IF v.n % 1000 = 0
    THEN Cell("Timestamp", Val("double", 0, FormatFloat(TimestampSerial(v.n))))
    ELSE Cell("", Val("utf8", 0, OddTimestampText))

(* converter.go:131-161 converter.convert on the value kinds of the model *)
converterConvert(mode, type, v) ==
    CASE type \in {"int64", "uint64", "interval"} -> convertLargeIntegers(mode, v)
      [] type \in {"int8", "uint8", "int16", "uint16", "int32", "uint32"} ->
            Converted(Cell("Number", v))
      [] type \in {"float", "double"} -> convertFloat(mode, v)
      [] type = "boolean" -> Converted(Cell("", v))
      [] type \in {"utf8", "string"} -> Converted(Cell("", v))
      [] type = "date" -> Converted(converterConvertDate(v))
      [] type = "datetime" -> Converted(converterConvertDatetime(v))
      [] type = "timestamp" -> Converted(converterConvertTimestamp(v))
      [] OTHER -> Converted(Cell("", Val("utf8", 0, "UNSUPPORTED")))

(* converter.go:228-230 with uploader.go:343: the text rows.Columns reads   *)
(* with RawCellValue from a cell that SetCellValue wrote                    *)
CellText(cell) ==
    CASE cell.Value.k = "boolean" -> IF cell.Value.n = 1 THEN "1" ELSE "0"
      [] cell.Value.k \in {"utf8", "bytes"} -> cell.Value.t
      [] OTHER -> Sprintf(cell.Value)

(* A value exported to a cell, read from the cell as text, and uploaded *)
NoConv == [type |-> "", mode |-> "", v |-> Null, stage |-> "none", cell |-> NilCell,
           text |-> "", back |-> ConvertFails]

(* len(t) of the strings of the model *)
StrLen(text) == Len(Chars(text))

(* helpers.go:25-34 the weight of one cell *)
CellWeight(c) ==
    IF c = NilCell THEN 0
    ELSE CASE c.Value.k \in {"int64", "uint64", "double"} -> 8
           [] c.Value.k = "boolean" -> 1
           [] c.Value.k \in {"utf8", "bytes"} -> StrLen(c.Value.t)
           [] OTHER -> 0

RECURSIVE SumWeights(_, _)
SumWeights(row, k) ==
    IF k > Len(row) THEN 0 ELSE CellWeight(row[k]) + SumWeights(row, k + 1)

rowWeight(row) == SumWeights(row, 1)

(* Mutant: the kept columns are numbered in the order they are requested *)
makeHeaderInRequestOrder(columns, sch) ==
    LET kept == {k \in 1..Len(sch) : \E c \in 1..Len(columns) : columns[c] = sch[k].Name}
    IN  [name \in {sch[k].Name : k \in kept} |->
            LET k == CHOOSE l \in kept : sch[l].Name = name
                c == CHOOSE d \in 1..Len(columns) : columns[d] = name
            IN  [Index |-> Cardinality({d \in 1..c : \E l \in kept : sch[l].Name = columns[d]}),
                 Column |-> sch[k]]]

(* makeHeader: name -> [Index, Column] for the requested schema columns *)
makeHeader(columns, sch) ==
    LET kept == {k \in 1..Len(sch) : \E c \in 1..Len(columns) : columns[c] = sch[k].Name}
    IN  [name \in {sch[k].Name : k \in kept} |->
            LET k == CHOOSE l \in kept : sch[l].Name = name
            IN  [Index |-> Cardinality({l \in kept : l <= k}), Column |-> sch[k]]]

getColumnNames(sch) == [k \in 1..Len(sch) |-> sch[k].Name]

(* The rows ReadTable(req.MakePath()) yields: the range, projected *)
RangeRows(rows, r) ==
    LET lo == r.StartRow + 1
        hi == IF r.StartRow + r.RowCount < Len(rows) THEN r.StartRow + r.RowCount ELSE Len(rows)
        cols == {r.Columns[c] : c \in 1..Len(r.Columns)}
        proj(row) == IF cols = {} THEN row
                     ELSE [n \in DOMAIN row \cap cols |-> row[n]]
    IN  IF hi < lo THEN <<>>
        ELSE [k \in 1..(hi - lo + 1) |-> proj(rows[lo + k - 1])]

(* What Export returns: a workbook, or an error and what it tells *)
RspErr(kind, cause, value, total, limit) ==
    [kind |-> kind, file |-> [header |-> <<>>, rows |-> <<>>, nil |-> TRUE],
     cause |-> cause, value |-> value, total |-> total, limit |-> limit]

Rsp(kind, file) ==
    [kind |-> kind, file |-> file, cause |-> "", value |-> Null, total |-> 0, limit |-> 0]

NoFile == [header |-> <<>>, rows |-> <<>>, nil |-> TRUE]

NoReader == [state |-> "none", rows |-> <<>>, pos |-> 0, err |-> ""]

(* A read limit of a ypath range: a row index, or none (a nil pointer) *)
Limit(has, v) == [has |-> has, v |-> v]

Range(lower, upper) == [Lower |-> lower, Upper |-> upper]

NoExReq == [Columns |-> <<>>, allRows |-> TRUE, StartRow |-> 0, RowCount |-> 0,
            NumberPrecisionMode |-> "", MaxExcelFileSize |-> 0]

(* exporter.go:69-95 MakeExportRequest: a request, an error, or a panic on *)
(* the nil row index of a range that has no such limit                     *)
MakeExportRequest(in) ==
    LET r == [NoExReq EXCEPT !.Columns = in.Columns,
                             !.NumberPrecisionMode = in.Mode,
                             !.MaxExcelFileSize = in.MaxExcelFileSize]
    IN  IF Len(in.Ranges) > 1 THEN [outcome |-> "error", req |-> NoExReq]
        ELSE IF Len(in.Ranges) = 1
        THEN IF ~in.Ranges[1].Lower.has \/ ~in.Ranges[1].Upper.has
             THEN [outcome |-> "panic", req |-> NoExReq]
             ELSE [outcome |-> "ok",
                   req |-> [r EXCEPT !.allRows = FALSE,
                                     !.StartRow = in.Ranges[1].Lower.v,
                                     !.RowCount = in.Ranges[1].Upper.v - in.Ranges[1].Lower.v]]
        ELSE [outcome |-> "ok", req |-> r]

(* part_008:110-129 validateNumberPrecisionMode: the mode, "" when refused *)
validateNumberPrecisionMode(mode) ==
    IF mode = "" THEN "string"
    ELSE IF mode \in NumberPrecisionModes THEN mode
    ELSE ""

(* part_008:140-151 the row count of a request whose RowCount is 0 *)
DefaultRowCount(r) == IF r.RowCount = 0 THEN MaxRowCount ELSE r.RowCount

(* part_008:70-92 exportTable up to the call of Export: MakeExportRequest, *)
(* then validateExportRequest, which reads the table's row count when the  *)
(* request's RowCount is 0                                                 *)
ExportParse ==
    /\ task = "export" /\ pc = "e-parse"
    /\ LET m == MakeExportRequest(exInput)
           r == m.req
           mode == validateNumberPrecisionMode(r.NumberPrecisionMode)
           accepted == [r EXCEPT !.RowCount = DefaultRowCount(r),
                                 !.NumberPrecisionMode = mode]
       IN  CASE m.outcome = "panic" ->
                  /\ response' = RspErr("panic", "nil-limit", Null, 0, 0)
                  /\ pc' = "end"
                  /\ UNCHANGED <<exReq, calls, status>>
             [] m.outcome = "error" ->
                  /\ status' = WriteHeader(status, 400)
                  /\ pc' = "end"
                  /\ UNCHANGED <<exReq, calls, response>>
             [] m.outcome = "ok" /\ (r.StartRow < 0 \/ r.RowCount > MaxRowCount) ->
                  /\ status' = WriteHeader(status, 400)
                  /\ pc' = "end"
                  /\ UNCHANGED <<exReq, calls, response>>
             [] m.outcome = "ok" /\ r.StartRow >= 0 /\ r.RowCount = 0 ->
                  \E f \in Outcomes({"other"}) :
                      LET g == IF f # "none" THEN f
                               ELSE IF ~src.exists THEN "resolve"
                               ELSE "none"
                      IN  /\ calls' = Append(calls, Call("GetRowCount", g))
                          /\ IF g # "none" \/ src.rowCount > MaxRowCount \/ mode = ""
                             THEN /\ status' = WriteHeader(status, 400)
                                  /\ pc' = "end"
                                  /\ UNCHANGED <<exReq, response>>
                             ELSE /\ exReq' = accepted
                                  /\ pc' = "e-schema"
                                  /\ UNCHANGED <<status, response>>
             [] OTHER ->
                  IF mode = ""
                  THEN /\ status' = WriteHeader(status, 400)
                       /\ pc' = "end"
                       /\ UNCHANGED <<exReq, calls, response>>
                  ELSE /\ exReq' = accepted
                       /\ pc' = "e-schema"
                       /\ UNCHANGED <<calls, status, response>>
    /\ UNCHANGED <<task, input, data, req, table0, table, txTable, txState, txBound,
                   writer, s, i, written, result, cancelled, faulty, cancelAt,
                   src, reader, out, totalRowWeight, exInput, form, conv, floats>>

(* part_008:96-108 the status for what Export returned; a panic leaves the  *)
(* handler before any status is written                                    *)
ExportStatus(rsp) ==
    CASE rsp.kind = "ok" -> 200
      [] rsp.kind = "BadRequest" -> 400
      [] rsp.kind = "panic" -> 0
      [] OTHER -> 500

(* part_008:95-108 the handler replies after Export returned *)
ExportReply ==
    /\ task = "export" /\ pc = "done"
    /\ status' = WriteHeader(status, ExportStatus(response))
    /\ pc' = "end"
    /\ UNCHANGED <<task, uploadVars, cancelled, faulty, cancelAt, exportVars, exInput, form, conv, floats>>

(* exporter.go:168-180 ReadSchema, file name, column cap *)
ExportReadSchema ==
    /\ task = "export" /\ pc = "e-schema"
    /\ \E f \in Outcomes({"other"}) :
        LET g == IF f # "none" THEN f
                 ELSE IF ~src.exists THEN "resolve"
                 ELSE "none"
        IN  /\ calls' = Append(calls, Call("GetNode", g))
            /\ IF g # "none"
               THEN /\ response' = Rsp(IF g = "resolve" THEN "BadRequest" ELSE "Internal", NoFile)
                    /\ pc' = "done"
                    /\ s' = s
               ELSE IF Len(exReq.Columns) > excelMaxColCount
                       \/ (Len(exReq.Columns) = 0 /\ Len(src.schema) > excelMaxColCount)
               THEN /\ response' = Rsp("BadRequest", NoFile)
                    /\ pc' = "done"
                    /\ s' = src.schema
               ELSE /\ response' = response
                    /\ pc' = "e-open"
                    /\ s' = src.schema
    /\ UNCHANGED <<task, input, data, req, table0, table, txTable, txState, txBound,
                   writer, i, written, result, cancelled, faulty, cancelAt,
                   exReq, src, reader, out, totalRowWeight>>
    /\ UNCHANGED handlerVars
    /\ UNCHANGED convVars

(* exporter.go:182-190 ReadTable, defer in.Close(), default column list *)
ExportOpenReader ==
    /\ task = "export" /\ pc = "e-open"
    /\ \E f \in Outcomes({"other"}) :
        /\ calls' = Append(calls, Call("ReadTable", f))
        /\ IF f = "none"
           THEN /\ reader' = [state |-> "open", rows |-> RangeRows(src.rows, exReq),
                              pos |-> 0, err |-> ""]
                /\ exReq' = IF Len(exReq.Columns) = 0
                            THEN [exReq EXCEPT !.Columns = getColumnNames(s)]
                            ELSE exReq
                /\ pc' = "e-header"
                /\ response' = response
           ELSE /\ UNCHANGED <<reader, exReq>>
                /\ pc' = "done"
                /\ response' = Rsp("Internal", NoFile)
    /\ UNCHANGED <<task, input, data, req, table0, table, txTable, txState, txBound,
                   writer, s, i, written, result, cancelled, faulty, cancelAt,
                   src, out, totalRowWeight>>
    /\ UNCHANGED handlerVars
    /\ UNCHANGED convVars

(* converter.go:177-193 Convert: new file, header rows, styles *)
ConvertHeader ==
    /\ task = "export" /\ pc = "e-header"
    /\ LET nameToCol == makeHeader(exReq.Columns, s)
       IN  out' = [header |-> [k \in 1..Cardinality(DOMAIN nameToCol) |->
                        LET n == CHOOSE m \in DOMAIN nameToCol : nameToCol[m].Index = k
                        IN  [name |-> n, type |-> nameToCol[n].Column.Type]],
                   rows |-> <<>>, nil |-> FALSE]
    /\ totalRowWeight' = 0
    /\ pc' = "e-loop"
    /\ UNCHANGED <<task, input, data, req, table0, table, txTable, txState, txBound,
                   writer, s, i, written, result, calls, cancelled, faulty, cancelAt,
                   exReq, src, reader, response>>
    /\ UNCHANGED handlerVars
    /\ UNCHANGED convVars

(* Mutant: Convert does not look at r.Err() after the loop *)
ReaderFailedUnchecked(r) == FALSE

(* converter.go:249-251 Convert gives up the workbook when the reader failed *)
ReaderFailed(r) == r.err # ""

(* Mutant: the size limit is checked before the row's weight is added *)
LimitReachedBeforeAdding(total, w, limit) == total >= limit

(* converter.go:238-239 the running weight with this row reaches the limit *)
LimitReached(total, w, limit) == total + w >= limit

(* converter.go:202-219 what the first cell that stops the row's loop does: *)
(* the cells are visited in the order of a Go map, which is any order      *)
CellStops(nameToCol, row, n, mode) ==
    {[cause |-> "nocolumn", c |-> c] : c \in DOMAIN row \ DOMAIN nameToCol}
    \cup
    {[cause |-> converterConvert(mode, nameToCol[c].Column.Type, row[c]).err, c |-> c] :
        c \in {d \in DOMAIN row \cap DOMAIN nameToCol :
                /\ row[d] # Null
                /\ converterConvert(mode, nameToCol[d].Column.Type, row[d]).err # ""}}
    \cup
    {[cause |-> "panic", c |-> c] :
        c \in {d \in DOMAIN row \cap DOMAIN nameToCol :
                /\ nameToCol[d].Index > n
                /\ \/ row[d] = Null
                   \/ converterConvert(mode, nameToCol[d].Column.Type, row[d]).err = ""}}

(* converter.go:201-219 the cell buffer of a row whose cells all convert *)
ExcelRow(nameToCol, row, n, mode) ==
    [k \in 1..n |->
        IF \E c \in DOMAIN row : nameToCol[c].Index = k /\ row[c] # Null
        THEN LET c == CHOOSE d \in DOMAIN row : nameToCol[d].Index = k
             IN  converterConvert(mode, nameToCol[c].Column.Type, row[c]).cell
        ELSE NilCell]

(* converter.go:194-253 one r.Next() of Convert's loop and what follows it *)
ConvertRow ==
    /\ task = "export" /\ pc = "e-loop"
    /\ \E f \in Outcomes({"other"}) :
        LET nameToCol == makeHeader(exReq.Columns, s)
        IN  IF f # "none"
            THEN \* r.Next() is false and r.Err() tells why
                 LET rd == [reader EXCEPT !.err = f]
                 IN  /\ reader' = rd
                     /\ response' = IF ReaderFailed(rd)
                                    THEN RspErr("Internal", "read", Null, 0, 0)
                                    ELSE Rsp("ok", out)
                     /\ pc' = "e-close"
                     /\ UNCHANGED <<out, totalRowWeight>>
            ELSE IF reader.pos >= Len(reader.rows)
            THEN \* end of the stream
                 /\ response' = IF ReaderFailed(reader)
                                THEN RspErr("Internal", "read", Null, 0, 0)
                                ELSE Rsp("ok", out)
                 /\ pc' = "e-close"
                 /\ UNCHANGED <<reader, out, totalRowWeight>>
            ELSE LET row == reader.rows[reader.pos + 1]
                     n == Cardinality(DOMAIN row)
                     stops == CellStops(nameToCol, row, n, exReq.NumberPrecisionMode)
                 IN  /\ reader' = [reader EXCEPT !.pos = reader.pos + 1]
                     /\ IF stops # {}
                        THEN \E st \in stops :
                             /\ response' =
                                    IF st.cause = "panic"
                                    THEN RspErr("panic", "index", Null, 0, 0)
                                    ELSE RspErr("Internal", st.cause,
                                                IF st.cause = "nocolumn" THEN Null
                                                ELSE row[st.c], 0, 0)
                             /\ pc' = "e-close"
                             /\ UNCHANGED <<out, totalRowWeight>>
                        ELSE LET excelRow == ExcelRow(nameToCol, row, n,
                                                      exReq.NumberPrecisionMode)
                                 w == rowWeight(excelRow)
                             IN  /\ out' = [out EXCEPT !.rows = Append(out.rows, excelRow)]
                                 /\ totalRowWeight' = totalRowWeight + w
                                 /\ IF LimitReached(totalRowWeight, w, exReq.MaxExcelFileSize)
                                    THEN /\ response' = RspErr("Internal", "size", Null,
                                                               totalRowWeight + w,
                                                               exReq.MaxExcelFileSize)
                                         /\ pc' = "e-close"
                                    ELSE /\ response' = response
                                         /\ pc' = pc
    /\ UNCHANGED <<task, input, data, req, table0, table, txTable, txState, txBound,
                   writer, s, i, written, result, calls, cancelled, faulty, cancelAt,
                   exReq, src>>
    /\ UNCHANGED handlerVars
    /\ UNCHANGED convVars

(* exporter.go:186 the deferred in.Close() *)
ExportClose ==
    /\ task = "export" /\ pc = "e-close"
    /\ reader' = [reader EXCEPT !.state = "closed"]
    /\ calls' = Append(calls, Call("reader.Close", "none"))
    /\ pc' = "done"
    /\ UNCHANGED <<task, input, data, req, table0, table, txTable, txState, txBound,
                   writer, s, i, written, result, cancelled, faulty, cancelAt,
                   exReq, src, out, totalRowWeight, response>>
    /\ UNCHANGED handlerVars
    /\ UNCHANGED convVars

----------------------------------------------------------------------------
(* Inputs *)

(* Rows of a sheet: an empty row, header-like rows, a type row, data rows *)
RowPool == {<<>>, <<"a", "b">>, <<"b", "zz", "a">>, <<"int64", "utf8">>,
            <<"1", "x">>, <<"", "2">>}

SmallRowPool == {<<"a", "b">>, <<"1", "x">>}

RECURSIVE SeqsUpTo(_, _)
SeqsUpTo(S, n) ==
    IF n = 0 THEN {<<>>}
    ELSE LET shorter == SeqsUpTo(S, n - 1)
         IN  shorter \cup {Append(q, x) : q \in {p \in shorter : Len(p) = n - 1}, x \in S}

Workbook(rows) == <<[name |-> "Sheet1", visible |-> TRUE, rows |-> rows]>>

SchemaAB == <<Column("a", "int64", FALSE), Column("b", "utf8", TRUE)>>

OldRecord == ("a" :> Val("int64", 0, ""))

ExistingTable == [exists |-> TRUE, schema |-> SchemaAB, rows |-> <<OldRecord>>]

Mappings == {EmptyMapping,
             ("a" :> "A") @@ ("b" :> "B"),
             ("a" :> "A") @@ ("b" :> "A"),
             ("b" :> "B") @@ ("zz" :> "A"),
             ("a" :> "A")}

RowCounts == {-1, 0, 1, 2}

UploadInput(startRow, rowCount, sheet, header, types, columns, append, create) ==
    [startRow |-> startRow, rowCount |-> rowCount, sheet |-> sheet, header |-> header,
     types |-> types, columns |-> columns, append |-> append, create |-> create]

NoInput == UploadInput(0, 0, "", FALSE, FALSE, EmptyMapping, FALSE, FALSE)

(* Uploads checked with a store that may fail and a context that may be cancelled *)
TxInputs ==
    {UploadInput(0, 0, sh, h, FALSE, c, a, cr) :
        sh \in {"", "NoSuchSheet"}, h \in BOOLEAN, a \in BOOLEAN, cr \in BOOLEAN,
        c \in {EmptyMapping, ("a" :> "A") @@ ("b" :> "B"), ("a" :> "A")}}

(* Uploads checked for what they write *)
DataInputs ==
    {UploadInput(sr, rc, "", h, ty, EmptyMapping, FALSE, cr) :
        sr \in 0..MaxStartRow, rc \in RowCounts, h \in BOOLEAN, ty \in BOOLEAN,
        cr \in BOOLEAN}
    \cup
    {UploadInput(sr, 0, "", h, FALSE, c, FALSE, cr) :
        sr \in 0..1, h \in BOOLEAN, cr \in BOOLEAN, c \in Mappings \ {EmptyMapping}}

NoExInput == [Columns |-> <<>>, Ranges |-> <<>>, Mode |-> "", MaxExcelFileSize |-> 0]

IdleExport ==
    /\ exInput = NoExInput
    /\ exReq = NoExReq
    /\ src = NoTable
    /\ reader = NoReader
    /\ out = NoFile
    /\ totalRowWeight = 0
    /\ response = Rsp("", NoFile)

IdleUpload ==
    /\ input = NoInput
    /\ data = <<>>
    /\ req = NoReq
    /\ table0 = NoTable
    /\ table = NoTable
    /\ txTable = NoTable
    /\ txState = "none"
    /\ txBound = FALSE
    /\ writer = "none"
    /\ i = 0
    /\ written = <<>>
    /\ result = NoResult

StartUpload ==
    /\ task = "upload"
    /\ pc = "parse"
    /\ conv = NoConv
    /\ floats = FloatTexts
    /\ req = NoReq
    /\ table = table0
    /\ txTable = NoTable
    /\ txState = "none"
    /\ txBound = FALSE
    /\ writer = "none"
    /\ s = <<>>
    /\ i = 0
    /\ written = <<>>
    /\ result = NoResult
    /\ calls = <<>>
    /\ cancelled = FALSE
    /\ cancelAt = ""
    /\ status = 0
    /\ IdleExport

MaxTableRows == 2

(* Tables an export reads: an integer column of one of the wide integer   *)
(* types, a boolean, a double and a string column                          *)
WideIntTypes == {"int64", "uint64", "interval"}

ExportSchema(tx) ==
    <<Column("x", tx, FALSE), Column("y", "boolean", FALSE),
      Column("z", "double", FALSE), Column("w", "utf8", FALSE)>>

(* The Go type of the values of a wide integer column *)
IntKind(tx) == IF tx = "uint64" THEN "uint64" ELSE "int64"

(* Rows: small values; values that do not fit in a number; nulls; round    *)
(* large values; a row that holds only one of the columns                  *)
ExportRowPool(tx) ==
    {("x" :> Val(IntKind(tx), 1, "")) @@ ("y" :> Val("boolean", 1, ""))
        @@ ("z" :> Val("double", 0, SmallFloat)) @@ ("w" :> Val("utf8", 0, "ab")),
     ("x" :> Val(IntKind(tx), 0, BigInt)) @@ ("y" :> Val("boolean", 0, ""))
        @@ ("z" :> Val("double", 0, BigFloat)) @@ ("w" :> Val("utf8", 0, "")),
     ("x" :> Null) @@ ("y" :> Val("boolean", 1, "")) @@ ("z" :> Null) @@ ("w" :> Null),
     ("x" :> Val(IntKind(tx), 0, RoundBigInt)) @@ ("y" :> Null)
        @@ ("z" :> Val("double", 0, MidPointFloat)) @@ ("w" :> Val("utf8", 0, "ab")),
     ("y" :> Val("boolean", 1, ""))}

(* The tables: the rows are the first rows of the table, rowCount is its   *)
(* row_count attribute                                                     *)
ExportTables ==
    UNION {{[exists |-> TRUE, schema |-> ExportSchema(tx), rows |-> r, rowCount |-> Len(r)] :
                r \in SeqsUpTo(ExportRowPool(tx), MaxTableRows)} : tx \in WideIntTypes}
    \cup
    {[exists |-> TRUE, schema |-> ExportSchema("int64"), rows |-> r,
      rowCount |-> MaxRowCount + 1] :
        r \in {q \in SeqsUpTo(ExportRowPool("int64"), MaxTableRows) : Len(q) = 1}}

(* The row ranges of a path: none, [#0:#1], [#1:#3], the empty [#1:#1],     *)
(* one row too many, a negative lower index, no upper limit, two ranges    *)
RangePool ==
    {<<>>,
     <<Range(Limit(TRUE, 0), Limit(TRUE, 1))>>,
     <<Range(Limit(TRUE, 1), Limit(TRUE, 3))>>,
     <<Range(Limit(TRUE, 1), Limit(TRUE, 1))>>,
     <<Range(Limit(TRUE, 0), Limit(TRUE, MaxRowCount + 1))>>,
     <<Range(Limit(TRUE, -1), Limit(TRUE, 1))>>,
     <<Range(Limit(TRUE, 1), Limit(FALSE, 0))>>,
     <<Range(Limit(FALSE, 0), Limit(TRUE, 2))>>,
     <<Range(Limit(FALSE, 0), Limit(FALSE, 0))>>,
     <<Range(Limit(TRUE, 0), Limit(TRUE, 1)), Range(Limit(TRUE, 1), Limit(TRUE, 2))>>}

ExportColumns == {<<>>, <<"y">>, <<"w", "x">>, <<"y", "nosuch">>}

(* Size limits small enough for the rows of the model to reach *)
SizeLimits == {20, 1000}

ExportInputs ==
    {[Columns |-> c, Ranges |-> r, Mode |-> m, MaxExcelFileSize |-> z] :
        c \in ExportColumns,
        r \in {<<>>, <<Range(Limit(TRUE, 1), Limit(TRUE, 3))>>},
        m \in {"", "error", "lose", "bogus"}, z \in SizeLimits}
    \cup
    {[Columns |-> <<>>, Ranges |-> r, Mode |-> "", MaxExcelFileSize |-> 1000] :
        r \in RangePool}

StartExport ==
    /\ task = "export"
    /\ pc = "e-parse"
    /\ conv = NoConv
    /\ floats = FloatTexts
    /\ form = ""
    /\ IdleUpload
    /\ s = <<>>
    /\ calls = <<>>
    /\ cancelled = FALSE
    /\ cancelAt = ""
    /\ faulty = TRUE
    /\ status = 0
    /\ src \in {NoTable} \cup ExportTables
    /\ exInput \in ExportInputs
    /\ exReq = NoExReq
    /\ reader = NoReader
    /\ out = NoFile
    /\ totalRowWeight = 0
    /\ response = Rsp("", NoFile)

Init ==
    \/ /\ faulty = TRUE
       /\ input \in TxInputs
       /\ data \in {Workbook(r) : r \in SeqsUpTo(SmallRowPool, MaxRows)}
       /\ table0 \in {NoTable, ExistingTable}
       /\ form \in Forms
       /\ StartUpload
    \/ StartExport

InitData ==
    /\ faulty = FALSE
    /\ input \in DataInputs
    /\ data \in {Workbook(r) : r \in SeqsUpTo(RowPool, MaxRows)}
    /\ table0 = IF input.create THEN NoTable ELSE ExistingTable
    /\ form = "ok"
    /\ StartUpload

(* The values sent through both converters *)
ConvValues ==
    {<<type, Val("int64", n, "")>> :
        type \in {"int8", "int16", "int32", "int64", "interval"}, n \in {0, 1, 2, -3}}
    \cup {<<type, Val("uint64", n, "")>> :
            type \in {"uint8", "uint16", "uint32", "uint64"}, n \in {0, 1, 2}}
    \cup {<<type, Val(IF type = "uint64" THEN "uint64" ELSE "int64", 0, n)>> :
            type \in {"int64", "uint64", "interval"}, n \in BigNumerals}
    \cup {<<"double", Val("double", 0, x)>> : x \in DecimalFloats}
    \cup {<<"boolean", Val("boolean", n, "")>> : n \in {0, 1}}
    \cup {<<"date", Val("uint64", n, "")>> : n \in DateValues}
    \cup {<<"datetime", Val("uint64", n, "")>> : n \in DatetimeValues}
    \cup {<<"timestamp", Val("uint64", n, "")>> : n \in MilliTimestamps \cup {OddTimestamp}}

InitConv ==
    /\ task = "convert"
    /\ pc = "idle"
    /\ form = ""
    /\ floats = FloatTexts
    /\ IdleUpload
    /\ IdleExport
    /\ s = <<>>
    /\ calls = <<>>
    /\ cancelled = FALSE
    /\ cancelAt = ""
    /\ faulty = FALSE
    /\ status = 0
    /\ conv \in {[NoConv EXCEPT !.type = tv[1], !.v = tv[2], !.mode = m, !.stage = "value"] :
                    tv \in ConvValues, m \in NumberPrecisionModes}

(* converter.go:212 Convert converts the value of a column *)
Encode ==
    /\ task = "convert" /\ conv.stage = "value"
    /\ LET c == converterConvert(conv.mode, conv.type, conv.v)
       IN  conv' = IF c.err = "" THEN [conv EXCEPT !.stage = "cell", !.cell = c.cell]
                   ELSE [conv EXCEPT !.stage = "failed"]
    /\ UNCHANGED <<task, pc, uploadVars, cancelled, faulty, cancelAt, exportVars, handlerVars,
                   floats>>

(* converter.go:228-230, uploader.go:343 the cell is written and read back *)
Serialize ==
    /\ task = "convert" /\ conv.stage = "cell"
    /\ conv' = [conv EXCEPT !.stage = "text", !.text = CellText(conv.cell)]
    /\ UNCHANGED <<task, pc, uploadVars, cancelled, faulty, cancelAt, exportVars, handlerVars,
                   floats>>

(* uploader.go:366 upload converts the text for a column of the same type *)
Decode ==
    /\ task = "convert" /\ conv.stage = "text"
    /\ conv' = [conv EXCEPT !.stage = "back",
                            !.back = convert(conv.text, Column("c", conv.type, FALSE))]
    /\ UNCHANGED <<task, pc, uploadVars, cancelled, faulty, cancelAt, exportVars, handlerVars,
                   floats>>

NextConv == Encode \/ Serialize \/ Decode

SpecConv == InitConv /\ [][NextConv]_vars

NextUpload ==
    \/ ParseRequest
    \/ ReadForm
    \/ BeginTx
    \/ CreateTable
    \/ ReadSchema
    \/ ResolveMapping
    \/ CheckMapping
    \/ WriteTable
    \/ OpenRows
    \/ UploadRow
    \/ WriterCommit
    \/ WriterRollback
    \/ TxCommit
    \/ TxAbort
    \/ UploadReply

NextExport ==
    \/ ExportParse
    \/ ExportReadSchema
    \/ ExportOpenReader
    \/ ConvertHeader
    \/ ConvertRow
    \/ ExportClose
    \/ ExportReply

Next == NextUpload \/ NextExport \/ Cancel

Spec == Init /\ [][Next]_vars

SpecData == InitData /\ [][NextUpload]_vars

----------------------------------------------------------------------------
(* Properties *)

Called(name, f) == \E k \in 1..Len(calls) : calls[k] = Call(name, f)

CalledBefore(n1, f1, n2, f2) ==
    \E a, b \in 1..Len(calls) : a < b /\ calls[a] = Call(n1, f1) /\ calls[b] = Call(n2, f2)

UploadReturned == task = "upload" /\ pc = "done"

UploadFailed == UploadReturned /\ result.kind # "ok"

(* C1: whenever Upload returns an error the destination node is what it    *)
(* was before the call: the rows of an existing table are unchanged and a  *)
(* table created inside the transaction does not exist.                    *)
C1_NoWriteVisibleAfterError == UploadFailed => table = table0

(* An upload in create mode that wrote rows and then failed *)
C1_Witness ==
    /\ UploadFailed
    /\ req.create
    /\ Called("CreateTable", "none")
    /\ Len(written) > 0
    /\ ~table.exists

(* C2: Upload returns success only after the writer's Commit and then the  *)
(* transaction's Commit succeeded; a failed commit makes Upload return an  *)
(* error; the abort on exit leaves the committed rows in place.            *)
C2_SuccessOnlyAfterBothCommits ==
    UploadReturned =>
        /\ result.kind = "ok" =>
            /\ CalledBefore("writer.Commit", "none", "tx.Commit", "none")
            /\ calls[Len(calls)][1] = "tx.Abort"
            /\ table.exists
            /\ table.rows = IF req.append THEN table0.rows \o Records(written)
                            ELSE Records(written)
        /\ (\E k \in 1..Len(calls) :
                calls[k][1] \in {"writer.Commit", "tx.Commit"} /\ calls[k][2] # "none")
            => result.kind # "ok"

(* A successful upload of at least one row, after the abort on exit ran *)
C2_Witness ==
    /\ UploadReturned
    /\ result.kind = "ok"
    /\ Len(written) > 0
    /\ Called("tx.Abort", "finished")

WriterOpened == Called("WriteTable", "none")

RollbackBeforeAbort ==
    \E a, b \in 1..Len(calls) :
        a < b /\ calls[a][1] = "writer.Rollback" /\ calls[b][1] = "tx.Abort"

C4_CancelWhileStreaming ==
    /\ (UploadReturned /\ cancelAt \in {"rows", "loop", "wcommit"}) =>
            /\ txState = "aborted"
            /\ ~Called("tx.Commit", "none")
            /\ result.kind # "ok"
            /\ table = table0
    /\ (task = "export" /\ pc = "done" /\ cancelAt = "e-loop") =>
            /\ reader.state = "closed"
            /\ response.kind # "ok"
            /\ response.file = NoFile
    /\ (task = "export" /\ response.kind # "ok") => response.file = NoFile

(* An export cancelled after a data row was put into the workbook *)
C4_Witness ==
    /\ task = "export"
    /\ pc = "done"
    /\ cancelAt = "e-loop"
    /\ Len(out.rows) > 0
    /\ reader.pos < Len(reader.rows)

(* An upload cancelled after a row was handed to the writer *)
C4_WitnessUpload ==
    /\ UploadReturned
    /\ cancelAt = "loop"
    /\ Len(written) > 0

----------------------------------------------------------------------------
(* Properties of what upload writes *)

TheRows == IF SheetExists(data, req.Sheet) THEN SheetRows(data, req.Sheet) ELSE <<>>

AscendingSeq(S) ==
    CHOOSE q \in [1..Cardinality(S) -> S] : \A a, b \in 1..Cardinality(S) : a < b => q[a] < q[b]

IsPrefix(p, q) == Len(p) <= Len(q) /\ \A k \in 1..Len(p) : p[k] = q[k]

WrittenIndexes == [k \in 1..Len(written) |-> written[k].i]

(* The rows the request selects: non-empty and inside the range *)
SelectedRows ==
    {n \in 1..Len(TheRows) :
        /\ Len(TheRows[n]) > 0
        /\ \/ req.allRows
           \/ req.StartRow <= n /\ n < req.StartRow + req.RowCount}

(* upload's loop ran to its end *)
LoopCompleted == task = "upload" /\ (pc \in {"wcommit", "txcommit"} \/ writer \in {"committed", "failed"})

(* C5: upload writes one record for exactly the non-empty rows whose       *)
(* 1-based position is in [start_row, start_row + row_count), or for every *)
(* non-empty row of an all-rows request, in sheet order and each once.     *)
C5_RowsInRange ==
    /\ IsPrefix(WrittenIndexes, AscendingSeq(SelectedRows))
    /\ LoopCompleted => WrittenIndexes = AscendingSeq(SelectedRows)

(* A non-empty row before the range and one after it were left out *)
C5_Witness ==
    /\ LoopCompleted
    /\ ~req.allRows
    /\ Len(written) = 1
    /\ \E n \in 1..Len(TheRows) : n < written[1].i /\ Len(TheRows[n]) > 0
    /\ \E n \in 1..Len(TheRows) : n > written[1].i /\ Len(TheRows[n]) > 0

SchemaNames == {s[k].Name : k \in 1..Len(s)}

SchemaColumn(name) == s[CHOOSE k \in 1..Len(s) : s[k].Name = name]

(* The schema columns the mapping assigns to a spreadsheet column that has *)
(* a cell in the row                                                       *)
MappedWithCell(row) ==
    {name \in SchemaNames \cap DOMAIN req.Columns :
        ColumnNameToNumber(req.Columns[name]) \in 1..Len(row)}

CellFor(row, name) == row[ColumnNameToNumber(req.Columns[name])]

(* C6 as stated: a written record holds, for every schema column mapped to *)
(* a spreadsheet column with a cell in the row, the decoded text of that   *)
(* cell (nothing for an empty cell of a non-required column), and nothing  *)
(* else.                                                                   *)
C6_RecordHoldsMappedCells ==
    \A k \in 1..Len(written) :
        LET row == TheRows[written[k].i]
            m == written[k].m
        IN  /\ DOMAIN m \subseteq MappedWithCell(row)
            /\ \A name \in MappedWithCell(row) :
                LET cv == convert(CellFor(row, name), SchemaColumn(name))
                IN  IF cv.optional THEN name \notin DOMAIN m
                    ELSE name \in DOMAIN m /\ m[name] = cv.val

(* The cells of a row, and the selected rows, with a failing conversion *)
BadCells(row) == {j \in 1..Len(row) : FailingAt(req, s, row, j) # {}}

BadRows == {n \in SelectedRows : BadCells(TheRows[n]) # {}}

MinOf(S) == CHOOSE x \in S : \A y \in S : x <= y

LoopEntered == task = "upload" /\ WriterOpened /\ pc # "rows" /\ result.cause # "rows"

(* C7: when a mapped cell of a row inside the range fails to decode, no    *)
(* record of that row or of a later row is written, Upload fails, and      *)
(* unless a write failed first the error is a BadRequest that quotes the   *)
(* cell text, the column letter, the row and the target type.              *)
C7_DecodeFailureIsBadRequest ==
    (LoopEntered /\ BadRows # {}) =>
        LET n == MinOf(BadRows)
            row == TheRows[n]
            j == MinOf(BadCells(row))
        IN  /\ \A k \in 1..Len(written) : written[k].i < n
            /\ pc \notin {"wcommit", "txcommit"}
            /\ pc = "done" =>
                \/ result.cause = "write"
                \/ /\ result.kind = "BadRequest"
                   /\ result.value = row[j]
                   /\ result.column = LetterSeq[j]
                   /\ result.row = row
                   /\ \E idx \in FailingAt(req, s, row, j) : result.type = s[idx + 1].Type

(* A decode failure in a row that follows a written row and has a row after it *)
C7_Witness ==
    /\ UploadReturned
    /\ result.cause = "convert"
    /\ Len(written) > 0
    /\ BadRows # {}
    /\ MinOf(BadRows) < Len(TheRows)

EarlyCauses == {"parse", "begin", "schema-inference", "create", "read-schema", "mapping"}

(* The mapping is resolved: Upload is past lines 291-295 *)
MappingResolved ==
    /\ task = "upload"
    /\ \/ pc \in {"check", "open", "rows", "loop", "wcommit", "rollback", "txcommit"}
       \/ pc \in {"abort", "done"} /\ result.cause \notin EarlyCauses

(* C8: a resolved mapping whose size differs from the schema's makes       *)
(* Upload fail with BadRequest before a writer is opened or a row written. *)
C8_MappingSizeMismatch ==
    (MappingResolved /\ Cardinality(DOMAIN req.Columns) # Len(s)) =>
        /\ writer = "none"
        /\ written = <<>>
        /\ \A k \in 1..Len(calls) : calls[k][1] \notin {"WriteTable", "Write"}
        /\ pc \in {"check", "abort", "done"}
        /\ pc \in {"abort", "done"} => result.kind = "BadRequest" /\ result.cause = "mapping-size"
        /\ pc = "done" => table = table0

(* An explicit mapping of one column against a schema of two *)
C8_Witness ==
    /\ UploadReturned
    /\ MappingResolved
    /\ Cardinality(DOMAIN req.Columns) # Len(s)
    /\ result.cause = "mapping-size"

(* The mapping came from the header: header=true and no explicit mapping *)
HeaderMode ==
    MappingResolved /\ input.header /\ DOMAIN input.columns = {}

HeaderOffset == 1 + (IF input.types THEN 1 ELSE 0)

(* The mapping a header row stands for: the non-empty cells whose text is  *)
(* a schema column name, each mapped to the column of a cell with it       *)
IsHeaderMapping(m, row) ==
    /\ DOMAIN m = {row[k] : k \in {l \in 1..Len(row) : row[l] # ""}} \cap SchemaNames
    /\ \A name \in DOMAIN m :
        /\ ColumnNameToNumber(m[name]) \in 1..Len(row)
        /\ row[ColumnNameToNumber(m[name])] = name

C10_ExplicitOrPositional ==
    MappingResolved =>
        /\ DOMAIN input.columns # {} => req.Columns = input.columns
        /\ (DOMAIN input.columns = {} /\ ~input.header) =>
            /\ DOMAIN req.Columns = SchemaNames
            /\ \A k \in 1..Len(s) : req.Columns[s[k].Name] = LetterSeq[k]

(* A positional mapping onto a created table of two columns *)
C10_Witness ==
    /\ MappingResolved
    /\ input.create
    /\ DOMAIN input.columns = {}
    /\ ~input.header
    /\ Len(s) = 2
    /\ req.Columns[s[2].Name] = "B"

----------------------------------------------------------------------------
(* Properties of the upload handler *)

(* C11: an upload request with header=true and an explicit column mapping  *)
(* is rejected when it is parsed: the handler answers 400, Upload is never *)
(* called and nothing is written to the store.                             *)
C11_HeaderWithMappingRejected ==
    (task = "upload" /\ input.header /\ ColumnsGiven(input)) =>
        /\ calls = <<>>
        /\ table = table0
        /\ pc \in {"rejected", "end"} => status = 400

(* The request of an upload that MakeUploadRequest accepted *)
RequestAccepted == task = "upload" /\ pc \notin {"parse", "rejected"}

(* The first row of the data range of a request *)
DataStart(r) == IF r.allRows THEN 1 ELSE r.StartRow

(* The metadata rows a request announces *)
MetaRows == (IF input.header THEN 1 ELSE 0) + (IF input.types THEN 1 ELSE 0)

----------------------------------------------------------------------------
(* Properties of schema inference *)

(* The type row of an upload in create mode *)
TypeRowIndex == IF req.Header THEN 2 ELSE 1

(* The type row has a cell that names no type, under a spreadsheet column  *)
(* that gives a schema column                                              *)
BadTypeCell ==
    /\ Len(TheRows) >= TypeRowIndex
    /\ \E k \in 1..Len(TheRows[TypeRowIndex]) :
        /\ k <= Len(TheRows[1])
        /\ TheRows[1][k] # ""
        /\ TheRows[TypeRowIndex][k] # ""
        /\ TrimSpace(TheRows[TypeRowIndex][k]) \notin SchemaTypes

(* C13: in create mode with types=true a type cell that names no type      *)
(* makes Upload fail with BadRequest, and the table does not exist after.  *)
C13_BadTypeIsBadRequest ==
    (UploadReturned /\ req.create /\ req.Types /\ DOMAIN input.columns = {} /\ BadTypeCell) =>
        /\ result.kind = "BadRequest"
        /\ ~table.exists

(* The positions of the non-empty cells of a row, and the j-th of them *)
NonEmptyCells(row) == {k \in 1..Len(row) : row[k] # ""}

NthNonEmpty(row, j) ==
    CHOOSE k \in NonEmptyCells(row) : Cardinality({l \in NonEmptyCells(row) : l <= k}) = j

(* The columns of sch are named and ordered as C14 says for request r *)
NamedAndOrdered(sch, r, first) ==
    IF DOMAIN r.Columns # {}
    THEN /\ Len(sch) = Cardinality(DOMAIN r.Columns)
         /\ {sch[k].Name : k \in 1..Len(sch)} = DOMAIN r.Columns
         /\ \A a, b \in 1..Len(sch) :
                a < b => ColumnNameToNumber(r.Columns[sch[a].Name])
                            <= ColumnNameToNumber(r.Columns[sch[b].Name])
    ELSE /\ Len(sch) = Cardinality(NonEmptyCells(first))
         /\ \A j \in 1..Len(sch) :
                sch[j].Name = IF r.Header THEN first[NthNonEmpty(first, j)]
                              ELSE LetterSeq[NthNonEmpty(first, j)]

(* C14: MakeSchema names the columns after the mapping's schema names in   *)
(* ascending order of their spreadsheet column; else, with header=true,    *)
(* after the non-empty cells of the first row in cell order; else after    *)
(* the letters of the non-empty cells of the first row.  Checked on every  *)
(* schema MakeSchema returns and on the table created from it.             *)
C14_SchemaNamesAndOrder ==
    /\ (task = "upload" /\ pc = "create") =>
            \A ms \in MakeSchema(req, data) :
                ms.err = "" =>
                    NamedAndOrdered(ms.schema, req,
                                    IF Len(TheRows) >= 1 THEN TheRows[1] ELSE <<>>)
    /\ (task = "upload" /\ pc = "schema" /\ Called("CreateTable", "none")) =>
            NamedAndOrdered(txTable.schema, req, IF Len(TheRows) >= 1 THEN TheRows[1] ELSE <<>>)

(* A table created from a first row whose first cell is empty: one column, B *)
C14_Witness ==
    /\ task = "upload" /\ pc = "schema"
    /\ Called("CreateTable", "none")
    /\ DOMAIN req.Columns = {}
    /\ ~req.Header
    /\ TheRows[1] = <<"", "2">>
    /\ Len(txTable.schema) = 1
    /\ txTable.schema[1].Name = "B"

----------------------------------------------------------------------------
(* Properties of error classification *)

(* The store calls C15 names *)
AuthCheckedCalls == {"CreateTable", "GetNode", "WriteTable", "Write", "writer.Commit", "tx.Commit"}

(* One of them failed with an authorization error *)
AuthFailure ==
    \E k \in 1..Len(calls) : calls[k][1] \in AuthCheckedCalls /\ calls[k][2] = "auth"

(* C15: every store authorization failure met during Upload (creating the  *)
(* table, reading the schema, opening the writer, writing a row,           *)
(* committing the writer, committing the transaction) makes Upload return  *)
(* Unauthorized, which the handler answers with 401.                       *)
C15_AuthFailureIsUnauthorized ==
    (UploadReturned /\ AuthFailure) =>
        /\ result.kind = "Unauthorized"
        /\ UploadStatus(result) = 401

----------------------------------------------------------------------------
(* Properties of the exported workbook *)

ExportReturned == task = "export" /\ pc \in {"done", "end"} /\ response.cause # "nil-limit"

(* The schema columns an export keeps, by schema position, and the output  *)
(* column of the kept column at schema position k                          *)
KeptColumns == {k \in 1..Len(s) : \E c \in 1..Len(exReq.Columns) : exReq.Columns[c] = s[k].Name}

OutputIndex(k) == Cardinality({l \in KeptColumns : l <= k})

(* The cell of data row n in output column j; cells past the row's buffer are empty *)
CellAt(file, n, j) == IF j <= Len(file.rows[n]) THEN file.rows[n][j] ELSE NilCell

(* C16: in the workbook Convert returns the kept columns are the requested *)
(* schema columns numbered 1..k in schema order; column j has the j-th     *)
(* kept column's name in row 1 and its type in row 2; the n-th row read    *)
(* has each non-null value in its column's cell of row n + 2 and a null    *)
(* value leaves the cell empty.                                            *)
C16_WorkbookLayout ==
    (ExportReturned /\ response.kind = "ok") =>
        LET file == response.file
        IN  /\ Len(file.header) = Cardinality(KeptColumns)
            /\ \A k \in KeptColumns :
                    file.header[OutputIndex(k)] = [name |-> s[k].Name, type |-> s[k].Type]
            /\ Len(file.rows) = Len(reader.rows)
            /\ \A n \in 1..Len(reader.rows) :
                \A k \in KeptColumns :
                    LET row == reader.rows[n]
                        c == s[k].Name
                    IN  IF c \in DOMAIN row /\ row[c] # Null
                        THEN /\ CellAt(file, n, OutputIndex(k)) # NilCell
                             /\ CellAt(file, n, OutputIndex(k)) =
                                    converterConvert(exReq.NumberPrecisionMode,
                                                     s[k].Type, row[c]).cell
                        ELSE CellAt(file, n, OutputIndex(k)) = NilCell

(* A workbook of the columns w, x requested in that order, with a row of   *)
(* values and a row of nulls                                               *)
C16_Witness ==
    /\ ExportReturned /\ response.kind = "ok"
    /\ exInput.Columns = <<"w", "x">>
    /\ Len(response.file.rows) = 2
    /\ response.file.header[1].name = "x"
    /\ \A n \in 1..2 : DOMAIN reader.rows[n] = {"w", "x"}
    /\ \E n \in 1..2 : reader.rows[n]["x"] = Null
    /\ \E n \in 1..2 : reader.rows[n]["x"] # Null /\ reader.rows[n]["w"] # Null

(* The weight C17 gives a cell by the kind of its value *)
WeightOfCell(c) ==
    IF c = NilCell THEN 0
    ELSE IF c.Value.k \in {"int64", "uint64", "double"} THEN 8
    ELSE IF c.Value.k = "boolean" THEN 1
    ELSE IF c.Value.k \in {"utf8", "bytes"} THEN Len(Chars(c.Value.t))
    ELSE 0

RECURSIVE WeightOfRow(_, _)
WeightOfRow(row, k) == IF k = 0 THEN 0 ELSE WeightOfCell(row[k]) + WeightOfRow(row, k - 1)

(* The weight of the first n data rows of a workbook *)
RECURSIVE WeightOfRows(_, _)
WeightOfRows(rows, n) ==
    IF n = 0 THEN 0 ELSE WeightOfRow(rows[n], Len(rows[n])) + WeightOfRows(rows, n - 1)

Converting == task = "export" /\ pc \in {"e-loop", "e-close", "done", "end"} /\ ~out.nil

(* C17: Convert adds each written row's weight to a running total; the     *)
(* first time the total reaches or exceeds MaxExcelFileSize it stops       *)
(* reading and returns an error with the total and the limit and no        *)
(* workbook; while the total is below the limit, the limit fails nothing.  *)
C17_SizeLimit ==
    Converting =>
        LET n == Len(out.rows)
            limit == exReq.MaxExcelFileSize
        IN  /\ totalRowWeight = WeightOfRows(out.rows, n)
            /\ \A m \in 1..(n - 1) : WeightOfRows(out.rows, m) < limit
            /\ (n >= 1 /\ WeightOfRows(out.rows, n) >= limit) =>
                    /\ pc # "e-loop"
                    /\ response.kind \notin {"ok", ""}
                    /\ response.cause = "size"
                    /\ response.total = WeightOfRows(out.rows, n)
                    /\ response.limit = limit
                    /\ response.file = NoFile
            /\ response.cause = "size" => (n >= 1 /\ WeightOfRows(out.rows, n) >= limit)

(* An export stopped at its second row, whose weight brings the total to   *)
(* exactly the limit                                                       *)
C17_Witness ==
    /\ Converting
    /\ response.cause = "size"
    /\ Len(out.rows) = 2
    /\ response.total = response.limit
    /\ reader.pos = 2

(* The columns C18 is about *)
IsWideInt(type) == type \in {"int64", "uint64", "interval"}

IsFloat(type) == type \in {"float", "double"}

(* What C18 says mode string and mode lose give for a value of a column of  *)
(* the given type                                                          *)
EncodedAs(mode, type, v) ==
    IF fitsInNumber(v) \/ mode = "lose"
    THEN Cell(IF IsWideInt(type) THEN "Number" ELSE "", v)
    ELSE Cell("", Val("utf8", 0, Sprintf(v)))

(* C18: a wide integer that fits in a number is written as the native      *)
(* integer with the Number style; one that does not fit fails the export    *)
(* under mode error with an error naming the value, is written as its       *)
(* decimal string with no style under mode string and as the native integer *)
(* with the Number style under mode lose; a float that does not fit fails   *)
(* under error, is written as its decimal string under string and as the    *)
(* native float under lose.                                                 *)
C18_PrecisionModes ==
    Converting =>
        LET mode == exReq.NumberPrecisionMode
        IN  /\ \A n \in 1..Len(out.rows) : \A k \in KeptColumns :
                LET row == reader.rows[n]
                    c == s[k].Name
                IN  (/\ c \in DOMAIN row
                     /\ row[c] # Null
                     /\ IsWideInt(s[k].Type) \/ IsFloat(s[k].Type)) =>
                        /\ mode = "error" => fitsInNumber(row[c])
                        /\ CellAt(out, n, OutputIndex(k)) = EncodedAs(mode, s[k].Type, row[c])
            /\ response.cause = "precision" =>
                /\ mode = "error"
                /\ response.kind \notin {"ok", ""}
                /\ response.file = NoFile
                /\ reader.pos = Len(out.rows) + 1
                /\ \E k \in KeptColumns :
                    /\ IsWideInt(s[k].Type) \/ IsFloat(s[k].Type)
                    /\ s[k].Name \in DOMAIN reader.rows[reader.pos]
                    /\ reader.rows[reader.pos][s[k].Name] = response.value
                    /\ response.value # Null
                    /\ ~fitsInNumber(response.value)

(* Exports that wrote a wide integer and a float that do not fit, under     *)
(* mode lose and under mode string, and one that failed on such an integer  *)
(* under mode error                                                         *)
WroteWide(mode) ==
    /\ Converting
    /\ exReq.NumberPrecisionMode = mode
    /\ Len(out.rows) >= 1
    /\ DOMAIN reader.rows[1] = {"w", "x", "y", "z"}
    /\ Len(exReq.Columns) = 4
    /\ reader.rows[1]["x"] = Val(IntKind(s[1].Type), 0, BigInt)
    /\ reader.rows[1]["z"] = Val("double", 0, BigFloat)

C18_Witness ==
    \/ WroteWide("lose") /\ s[1].Type = "interval"
    \/ WroteWide("string") /\ s[1].Type = "uint64"
    \/ /\ Converting /\ response.cause = "precision"
       /\ response.value = Val("int64", 0, BigInt)

(* An export that failed on a value that does not fit or on the size limit *)
PrecisionOrSizeFailure ==
    /\ task = "export" /\ pc \in {"done", "end"}
    /\ response.cause \in {"precision", "size"}

(* C19: an export that fails because a value does not fit in a number      *)
(* under mode error, or because the output size limit is reached, is       *)
(* reported by Export as BadRequest and answered with status 400.          *)
C19_ConvertFailureIsBadRequest ==
    PrecisionOrSizeFailure =>
        /\ response.kind = "BadRequest"
        /\ pc = "end" => status = 400

(* The zero-based indices of the table rows the path of the request asks for *)
RowsAsked ==
    IF Len(exInput.Ranges) = 1
    THEN {k \in 0..(Len(src.rows) - 1) :
            exInput.Ranges[1].Lower.v <= k /\ k < exInput.Ranges[1].Upper.v}
    ELSE 0..(Len(src.rows) - 1)

(* The requests C20 says are rejected *)
MustBeRejected ==
    \/ Len(exInput.Ranges) > 1
    \/ /\ Len(exInput.Ranges) = 1
       /\ exInput.Ranges[1].Lower.has /\ exInput.Ranges[1].Upper.has
       /\ exInput.Ranges[1].Upper.v - exInput.Ranges[1].Lower.v > MaxRowCount
    \/ Len(exInput.Ranges) = 0 /\ src.exists /\ src.rowCount > MaxRowCount

(* C20: a request the export pipeline accepts has start >= 0 and count <=  *)
(* MaxRowCount, and the rows read are exactly those with zero-based index  *)
(* in [lower, upper) for a path with one range and all the table's rows    *)
(* for a path with none; a path with several ranges, a range longer than   *)
(* MaxRowCount and a rangeless request on a table of more than MaxRowCount *)
(* rows are rejected before any row is read.                               *)
C20_RowsReadAreTheRange ==
    (task = "export" /\ pc # "e-parse") =>
        /\ exReq # NoExReq => (exReq.StartRow >= 0 /\ exReq.RowCount <= MaxRowCount)
        /\ reader # NoReader =>
            /\ Len(reader.rows) = Cardinality(RowsAsked)
            /\ \A j \in 1..Len(reader.rows) :
                LET first == CHOOSE k \in RowsAsked : \A l \in RowsAsked : k <= l
                IN  \A c \in DOMAIN reader.rows[j] :
                        /\ c \in DOMAIN src.rows[first + j]
                        /\ reader.rows[j][c] = src.rows[first + j][c]
        /\ MustBeRejected =>
            /\ exReq = NoExReq
            /\ reader = NoReader
            /\ \A k \in 1..Len(calls) : calls[k][1] # "ReadTable"

(* C21: for an integer that fits in a number, a boolean, a date, a         *)
(* datetime, a timestamp of whole milliseconds and an interval, the        *)
(* uploader's convert of the text of the cell the exporter's convert       *)
(* emitted gives back the value.                                           *)
C21_RoundTrip ==
    (task = "convert" /\ conv.stage = "back" /\ conv.v.n # OddTimestamp) =>
        /\ conv.back.ok
        /\ conv.back.val = conv.v

(* The type row of the request, empty when types is not set or the row is  *)
(* missing                                                                 *)
TypeRowOf(r, d) ==
    IF ~r.Types THEN <<>>
    ELSE IF r.Header THEN readSecondRow(r, d).row
    ELSE readFirstRow(r, d).row

(* The spreadsheet column of the schema column with the given name *)
SpreadsheetColumnOf(r, d, name) ==
    IF DOMAIN r.Columns # {} THEN r.Columns[name]
    ELSE IF r.Header
    THEN ColumnNumberToName(CHOOSE c \in 1..Len(readFirstRow(r, d).row) :
                                readFirstRow(r, d).row[c] = name)
    ELSE name

(* The type C22 gives a schema column: the type its type cell names, any   *)
(* when the cell is empty or missing                                       *)
TypeByTypeRow(r, d, name) ==
    LET c == ColumnNameToNumber(SpreadsheetColumnOf(r, d, name))
        row == TypeRowOf(r, d)
    IN  IF c \in 1..Len(row) /\ row[c] # "" THEN GetColumnType(row[c]) ELSE "any"

SchemaMade ==
    task = "upload" /\ req.create /\ \E k \in 1..Len(calls) : calls[k][1] = "CreateTable"

(* C22: in the schema MakeSchema returns a column has type any unless      *)
(* types is set and the type row has a non-empty cell in the column's      *)
(* spreadsheet column, and then it has the type that cell names; an empty  *)
(* or missing type cell leaves the column at any.                          *)
C22_TypesFromTypeRow ==
    SchemaMade =>
        \A ms \in MakeSchema(req, data) :
            ms.err = "" =>
                \A k \in 1..Len(ms.schema) :
                    ms.schema[k].Type = TypeByTypeRow(req, data, ms.schema[k].Name)

(* The characters of a text without its first decimal point *)
RECURSIVE RemovePoint(_)
RemovePoint(q) ==
    IF q = <<>> THEN q
    ELSE IF q[1] = "." THEN Tail(q)
    ELSE <<q[1]>> \o RemovePoint(Tail(q))

(* What is left of the decimal text of v after removing the sign, the      *)
(* leading zeros, a decimal point wherever it stands and the trailing zeros *)
SignificantText(v) ==
    TrimRight(RemovePoint(TrimLeft(TrimPrefix(Chars(Sprintf(v)), "-"), "0")), "0")

Encoded == task = "convert" /\ conv.stage # "value" /\ (IsWideInt(conv.type) \/ IsFloat(conv.type))

(* C23: fitsInNumber(v) is true exactly when the decimal text of v, after  *)
(* removing the sign, the leading zeros, a single decimal point wherever   *)
(* it stands and the trailing zeros, has at most 15 characters.  What      *)
(* fitsInNumber returned shows in the conversion: under mode error it      *)
(* fails exactly when the value does not fit, under mode string the value  *)
(* is written as text exactly when it does not fit.                        *)
C23_FitsInNumber ==
    Encoded =>
        /\ conv.mode = "error" => (conv.stage = "failed" <=> Len(SignificantText(conv.v)) > 15)
        /\ conv.mode = "string" =>
                (conv.cell.Value.k = "utf8" <=> Len(SignificantText(conv.v)) > 15)

(* Upload of a request that names a sheet the workbook does not have has   *)
(* returned, and neither the store nor the context made it fail            *)
MissingSheetUpload ==
    /\ UploadReturned
    /\ ~SheetExists(data, req.Sheet)
    /\ ~cancelled
    /\ \A k \in 1..Len(calls) : calls[k][2] = "none"

(* C24: Upload of a request whose sheet does not exist returns BadRequest  *)
(* in every mode: with an explicit mapping, with header=true, with the     *)
(* positional mapping and with create=true.                                *)
C24_MissingSheetIsBadRequest == MissingSheetUpload => result.kind = "BadRequest"

(* C25: an explicit column mapping that names a column the schema does not *)
(* have never writes into a different schema column: every field of every  *)
(* record handed to the writer is a column the mapping names.              *)
C25_MappingWritesOnlyNamedColumns ==
    (task = "upload" /\ input.columns # EmptyMapping) =>
        \A k \in 1..Len(written) : DOMAIN written[k].m \subseteq DOMAIN input.columns

(* Upload creates the table from a sheet without header row and mapping *)
CreatesByLetter == task = "upload" /\ input.create /\ ~input.header /\ input.columns = EmptyMapping

(* C26: in create mode without header and mapping the created column named *)
(* by the letter L receives the values of spreadsheet column L, also when  *)
(* the first row has gaps: every field of every written record is the      *)
(* decoded cell of the row that stands in the column of that letter.       *)
C26_CreatedColumnTakesItsLetter ==
    CreatesByLetter =>
        \A k \in 1..Len(written) :
            LET row == TheRows[written[k].i]
                m == written[k].m
            IN  \A name \in DOMAIN m :
                    /\ ColumnNameToNumber(name) \in 1..Len(row)
                    /\ m[name] = convert(row[ColumnNameToNumber(name)], SchemaColumn(name)).val

(* The path of the export request was parsed and MakeExportRequest was called *)
ExportRequestMade == task = "export" /\ pc # "e-parse"

(* C27: MakeExportRequest returns a request or an error for every path     *)
(* that parses, also for a range with a lower limit only, an upper limit   *)
(* only, an exact index or key limits: it never dereferences a row index   *)
(* the range does not have.                                                *)
C27_MakeExportRequestReturns ==
    ExportRequestMade => ~(response.kind = "panic" /\ response.cause = "nil-limit")

(* The rows Convert took from the reader so far *)
RowsTaken == {reader.rows[k] : k \in 1..reader.pos}

(* C28: Convert never writes outside the per-row cell buffer: for every    *)
(* row the reader returned, also one that holds only some of the projected *)
(* columns, the output index of each column present in the row is at most  *)
(* the length of the buffer allocated for that row, and the conversion     *)
(* does not stop on an index out of range.                                 *)
C28_IndexInsideRowBuffer ==
    (task = "export" /\ reader.state # "none") =>
        /\ \A row \in RowsTaken :
            \A c \in DOMAIN row \cap DOMAIN makeHeader(exReq.Columns, s) :
                makeHeader(exReq.Columns, s)[c].Index <= Cardinality(DOMAIN row)
        /\ ~(response.kind = "panic" /\ response.cause = "index")

(* The upload wrote no row and committed the destination table empty *)
CommittedEmpty ==
    /\ UploadReturned
    /\ result.kind = "ok"
    /\ ~req.append
    /\ table.exists /\ table.rows = <<>>

(* C29: every request MakeUploadRequest accepts has row_count >= 0: a      *)
(* negative row_count is rejected, and so never leads to an upload that    *)
(* writes no row and, with append=false, commits an empty table.           *)
C29_RowCountNotNegative ==
    /\ RequestAccepted => req.RowCount >= 0
    /\ (CommittedEmpty /\ input.rowCount < 0) => FALSE

(* The upload handler has returned *)
HandlerReturned == task = "upload" /\ pc \in {"rejected", "noupload", "end"}

(* C30: the upload handler finishes without an error status only if Upload *)
(* was called and returned nil; every other way it ends, also on a         *)
(* multipart request without the part uploadfile, answers 400, 401 or 500. *)
C30_NoErrorStatusOnlyAfterUpload ==
    (HandlerReturned /\ status \notin {400, 401, 500}) =>
        /\ pc = "end"
        /\ result.kind = "ok"

====
